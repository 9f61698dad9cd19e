----------------------------- MODULE MCJournal -----------------------------
(***************************************************************************)
(* One node and one proposal: additions and removals under two event ids,  *)
(* a registration, receipts for each of them and for none, by two tasks.   *)
(***************************************************************************)
EXTENDS JournalFold

CONSTANTS h1, n1, p

created == DeriveEID(1, "create", n1)
dropped == DeriveEID(2, "cleanup", n1)
opened  == RegisteredEID(1, p)

ShortLines ==
    { ChangeEvent("added", created, n1, None, h1),
      ChangeEvent("modified", dropped, n1, h1, h1),
      ChangeEvent("removed", created, n1, h1, None),
      ChangeEvent("removed", dropped, n1, h1, None),
      RegisteredEvent(1, p),
      LegacyEpicReceipt(p, 2),
      RefreshReceipt({created}) }
    \cup {TaskReceipt(kind, for, 1) : kind \in {"task_retargeted", "task_closed"},
                                      for \in {created, dropped}}
    \cup {TaskReceipt("task_created", for, t) : for \in {created, dropped, opened}, t \in {1, 2}}
=============================================================================
