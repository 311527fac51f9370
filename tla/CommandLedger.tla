---------------------------- MODULE CommandLedger ----------------------------
(* The ledger of answered commands, api/app/match/commands.py: one entry    *)
(* per command id per seat, the first answer kept, the oldest entry dropped *)
(* once a seat holds more than MaxEntries of them.                          *)
EXTENDS Naturals, Sequences

CONSTANT MaxEntries  \* MAX_ENTRIES_PER_SEAT

ASSUME LedgerAssumption == MaxEntries \in Nat \ {0}

(* A seat's entries are a sequence, oldest first: a dict in insertion order.*)
Answered(entries, id) == \E i \in DOMAIN entries : entries[i].id = id

(* find, for an id that has been answered. *)
AnswerOf(entries, id) ==
  entries[CHOOSE i \in DOMAIN entries : entries[i].id = id]

(* record: never overwrites, and drops the oldest beyond the limit. *)
RecordedIfAccepted(entries, entry) ==  \* slip: refusals are not remembered
  IF entry.accepted THEN Append(entries, entry) ELSE entries
Recorded(entries, entry) ==
  IF Answered(entries, entry.id) THEN entries
  ELSE IF Len(entries) < MaxEntries THEN Append(entries, entry)
  ELSE Append(Tail(entries), entry)
=============================================================================
