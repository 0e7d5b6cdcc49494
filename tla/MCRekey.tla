------------------------------ MODULE MCRekey ------------------------------
(* Instances of Rekey for TLC. *)
EXTENDS Rekey, TLC

CONSTANTS k1, k2, k3, e1, e2, n1, n2

OneScope == [e \in Entries |-> "team"]

NoCells == [c \in Cells |-> [seal |-> Empty, old |-> FALSE]]
NoEntries == [e \in Entries |-> Unborn]

(* A row of before sealed metadata, and one of before name tokens. *)
OldRow(l) == [state |-> "live", value |-> k1, old |-> TRUE,
              seal |-> [f \in Fields |-> Plain], label |-> l,
              urlIdx |-> NoKey, nameIdx |-> NoKey]
SealedRow(l) == [state |-> "live", value |-> k1, old |-> FALSE,
                 seal |-> [f \in Fields |-> k1], label |-> l,
                 urlIdx |-> k1, nameIdx |-> NoKey]

OldStore == [entry |-> [e \in Entries |-> IF e = e1 THEN OldRow(n1) ELSE SealedRow(n1)],
             cell |-> [c \in Cells |-> [seal |-> IF c = "invite" THEN Plain
                                                 ELSE IF c = "dek" THEN Empty ELSE k1,
                                        old |-> c \in {"totp", "channel"}]]]
CellStore(c) == [entry |-> NoEntries,
                 cell |-> [NoCells EXCEPT ![c] = [seal |-> k1, old |-> c = "totp"]]]

MCStores == {[entry |-> NoEntries, cell |-> NoCells], OldStore}
            \cup {CellStore(c) : c \in {"totp", "smtp", "invite"}}
NewKeys == Permutations({k2, k3})
=============================================================================
