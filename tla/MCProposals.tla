----------------------------- MODULE MCProposals -----------------------------
(***************************************************************************)
(* Model values for Proposals: a whole-text and a metadata proposal on     *)
(* one target, decided by two requests at once.                            *)
(***************************************************************************)
EXTENDS Proposals, TLC

CONSTANTS text, meta, t1, k1, k2

MCProposals == {text, meta}
MCRequests == {k1, k2}
MCTargets == {t1}
MCTargetOf == [i \in MCProposals |-> t1]
MCTextOf == [i \in MCProposals |-> IF i = text THEN "drafted" ELSE "ready"]

JustText == {text}
(* What people write by hand is not, word for word, what is proposed.       *)
OtherTexts == {"by hand"}
=============================================================================
