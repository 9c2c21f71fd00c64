------------------------- MODULE MCSequencerStaking -------------------------
(* Small instances of the staking ledger. The order of the accounts tells
   only the candidates apart, which the symmetries of the passing runs keep. *)
EXTENDS StakingSets, TLC

CONSTANTS alice, bob, carol, dave, erin

\* One candidate, several delegators: a book at its limits.
OneCandidate == {alice}
FourBackers == {bob, carol, dave, erin}
AllAccounts == <<alice, bob, carol, dave, erin>>
BookAccounts == OneCandidate \cup FourBackers
BookBtc == [a \in BookAccounts |-> IF a \in OneCandidate THEN 2 ELSE 3]
BackerSymmetry == Permutations(FourBackers)

\* Two candidates share three delegators, and one candidate also asks to
\* delegate: a kick from one book reaches a delegator of the other.
TwoCandidates == {alice, bob}
ThreeBackers == {carol, dave, erin}
CrossBackers == ThreeBackers \cup {bob}
SharedAccounts == TwoCandidates \cup ThreeBackers
SharedBtc == [a \in SharedAccounts |-> IF a \in ThreeBackers THEN 2 ELSE 0]
CrossBtc == [SharedBtc EXCEPT ![bob] = 1]
SharedSymmetry == Permutations(TwoCandidates) \cup Permutations(ThreeBackers)
CrossSymmetry == Permutations(ThreeBackers)
=============================================================================
