------------------------------- MODULE Paths -------------------------------
(***************************************************************************)
(* Paths as sequences of segments; an absolute one starts with "/".        *)
(***************************************************************************)
EXTENDS Integers, Sequences, FiniteSets, SequencesExt

(* filepath.Rel; <<>> when one of the two is absolute and the other is not. *)
Below(common, base, path) ==
  [i \in 1 .. Len(base) - common |-> ".."] \o SubSeq(path, common + 1, Len(path))
Relative(base, path) ==
  IF (base # <<>> /\ base[1] = "/") # (path[1] = "/") THEN <<>>
  ELSE Below(Max({n \in 0 .. Len(base) : n <= Len(path) /\ \A i \in 1 .. n : base[i] = path[i]}), base, path)
=============================================================================
