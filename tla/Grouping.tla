------------------------------ MODULE Grouping ------------------------------
(***************************************************************************)
(* What the two analyzers count with: groupBy, which both define (the end  *)
(* of src/analyzer.ts and of src/arweave/arweave-analyzer.ts), and the     *)
(* score that a count brings.  None is what is not known.                  *)
(***************************************************************************)
EXTENDS Integers, FiniteSets, FiniteSetsExt, TLC

None == "none"

Groups(S, Key(_)) == {{a \in S : Key(a) = k} : k \in {Key(a) : a \in S}}

\* The same for those that have the key at all.
KnownGroups(S, Key(_)) == Groups({a \in S : Key(a) # None}, Key)

\* The n largest, as sort and slice(0, n) leave them: of equal ones any may be in, for
\* they come in the order of their first members, which is not kept here.
Top(groups, n) ==
  {shown \in kSubset(Min({n, Cardinality(groups)}), groups) :
     \A S \in shown, T \in groups \ shown : Cardinality(S) >= Cardinality(T)}

Largest(S, Key(_)) == Max({0} \cup {Cardinality(G) : G \in Groups(S, Key)})

Count(S, Holds(_)) == Cardinality({a \in S : Holds(a)})

\* A count of at least `many` brings the base, a step for each above it, and no more
\* than the cap.
Brings(n, many, base, step, cap) ==
  IF n < many THEN 0 ELSE Min({base + (n - many) * step, cap})

\* f itself, as a table: TLC then works out its values once, and not at every application.
Tabulated(f) == CHOOSE table \in {f} : table = f
=============================================================================
