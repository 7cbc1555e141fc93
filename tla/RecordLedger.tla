---------------------------- MODULE RecordLedger ----------------------------
(***************************************************************************)
(* What an append-only log of the understanding promises: records are      *)
(* added one at a time, numbered 1, 2, 3, ..., never changed or removed,    *)
(* and a client's event is recorded at most once.                          *)
(***************************************************************************)
EXTENDS Naturals

CONSTANTS Clients,  \* client event ids
          NoClient, \* a record that was added without one
          Intents,  \* what is recorded
          Ids       \* ids of records

VARIABLES ledger, \* the set of records
          size    \* how many there are

Record == [seq : Nat \ {0}, id : Ids, client : Clients \cup {NoClient}, intent : Intents]

LedgerInit == ledger = {} /\ size = 0

Add(c, i, d) ==
    /\ \A e \in ledger : e.id # d /\ (c # NoClient => e.client # c)
    /\ size' = size + 1
    /\ ledger' = ledger \cup {[seq |-> size + 1, id |-> d, client |-> c, intent |-> i]}

LedgerNext == \E c \in Clients \cup {NoClient}, i \in Intents, d \in Ids : Add(c, i, d)

LedgerSpec == LedgerInit /\ [][LedgerNext]_<<ledger, size>>
=============================================================================
