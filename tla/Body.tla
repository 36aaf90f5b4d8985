-------------------------------- MODULE Body --------------------------------
(***************************************************************************)
(* Bodies of requests and responses.  A byte is identified by its position *)
(* in the body, so the whole body is the sequence 1, 2, 3, ... and what    *)
(* has been transferred correctly so far is a prefix of it.                *)
(***************************************************************************)
EXTENDS Integers, Sequences, TLAPS

\* The bytes after position lo up to position hi.
Bytes(lo, hi) == [i \in 1 .. hi - lo |-> lo + i]

Lesser(a, b) == IF a < b THEN a ELSE b

\* Appending the next bytes of the body to a prefix of it gives a longer prefix.
LEMMA ExtendPrefix ==
    ASSUME NEW s \in Seq(Nat), NEW hi \in Nat, Len(s) <= hi,
           \A i \in 1 .. Len(s) : s[i] = i
    PROVE  LET t == s \o Bytes(Len(s), hi)
           IN  t \in Seq(Nat) /\ Len(t) = hi /\ \A i \in 1 .. Len(t) : t[i] = i
<1> DEFINE b == Bytes(Len(s), hi)
<1>1. b \in Seq(Nat) /\ Len(b) = hi - Len(s)
              /\ \A i \in 1 .. Len(b) : b[i] = Len(s) + i
  BY DEF Bytes
<1>2. QED BY <1>1
=============================================================================
