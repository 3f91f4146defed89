--------------------------- MODULE CashbackAccount ---------------------------
(***************************************************************************)
(* What the cashback wallet promises its users: an account that only takes *)
(* postings, whose balance changes with them and is never negative.        *)
(***************************************************************************)
EXTENDS Integers, Sequences, Sums

VARIABLES account, posted

Init == account = 0 /\ posted = <<>>

\* One or more postings appear together, after those that were there.
Post ==
  LET n == Len(posted) IN
  /\ Len(posted') > n
  /\ SubSeq(posted', 1, n) = posted
  /\ account' = account + Total(SubSeq(posted', n + 1, Len(posted')))
  /\ account' >= 0

Spec == Init /\ [][Post]_<<account, posted>>
=============================================================================
