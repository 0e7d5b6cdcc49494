---------------------------- MODULE RotationLog ----------------------------
(* The rotation_log column of one entry and the rotations that append to it *)
(* (appendRotationLog, the column's only writer).  A call reads the column, *)
(* appends and compare-and-swaps on the text it read, a few times; it is    *)
(* the last thing a rotation does, so overlapping rotations meet here.      *)
(* Entries carry a timestamp of one second, so two may be equal and the     *)
(* text the swap compares can come back.                                    *)
EXTENDS Naturals, Sequences

CONSTANTS
    Call,                    \* calls of appendRotationLog, one entry each
    Entry,                   \* rendered log entries
    NoEntry,
    logCap,                  \* entries kept (50 in the code)
    rotationLogCASAttempts,  \* attempts of one call (4 in the code)
    DatabaseErrors           \* may a statement fail?

ASSUME LogAssumption ==
    /\ NoEntry \notin Entry
    /\ logCap \in Nat \ {0}
    /\ rotationLogCASAttempts \in Nat \ {0}
    /\ DatabaseErrors \in BOOLEAN

VARIABLES
    log,        \* the column
    appended,   \* history: every entry that was appended, in order
    call        \* the calls: pc, entry, the column as read, failed attempts

vars == <<log, appended, call>>

Idle == [pc |-> "idle", entry |-> NoEntry, read |-> << >>, tries |-> 0]

Init ==
    /\ log = << >>
    /\ appended = << >>
    /\ call = [c \in Call |-> Idle]

(* Mutant: the cap keeps the oldest entries. *)
AppendKeepsOldest(existing, entry) ==
    LET all == Append(existing, entry)
    IN  IF Len(all) > logCap THEN SubSeq(all, 1, logCap) ELSE all

AppendRotationLog(existing, entry) ==
    LET all == Append(existing, entry)
    IN  IF Len(all) > logCap THEN SubSeq(all, Len(all) - logCap + 1, Len(all)) ELSE all

Begin(c) ==
    /\ call[c].pc = "idle"
    /\ \E e \in Entry : call' = [call EXCEPT ![c].pc = "read", ![c].entry = e]
    /\ UNCHANGED <<log, appended>>

GetVaultEntryRotationLog(c) ==
    /\ call[c].pc = "read"
    /\ call' = [call EXCEPT ![c].pc = "cas", ![c].read = log]
    /\ UNCHANGED <<log, appended>>

(* Mutants: one attempt fewer than the bound, and one more. *)
GivesUpEarly(n) == n + 1 >= rotationLogCASAttempts
GivesUpLate(n) == n > rotationLogCASAttempts

GivesUp(n) == n >= rotationLogCASAttempts

(* A miss re-reads, until the attempts are used up: the entry is dropped. *)
CASVaultEntryRotationLog(c) ==
    LET r == call[c]
    IN  /\ r.pc = "cas"
        /\ \/ /\ log = r.read
              /\ log' = AppendRotationLog(r.read, r.entry)
              /\ appended' = Append(appended, r.entry)
              /\ call' = [call EXCEPT ![c].pc = "done"]
           \/ /\ log # r.read
              /\ call' = [call EXCEPT ![c].pc = IF GivesUp(r.tries + 1) THEN "dropped" ELSE "read",
                                      ![c].tries = @ + 1]
              /\ UNCHANGED <<log, appended>>

(* A statement that fails ends the call: it is logged and dropped. *)
StatementFails(c) ==
    /\ DatabaseErrors
    /\ call[c].pc \in {"read", "cas"}
    /\ call' = [call EXCEPT ![c].pc = "failed"]
    /\ UNCHANGED <<log, appended>>

Next ==
    \E c \in Call :
        \/ Begin(c)
        \/ GetVaultEntryRotationLog(c)
        \/ CASVaultEntryRotationLog(c)
        \/ StatementFails(c)

Spec == Init /\ [][Next]_vars

----------------------------------------------------------------------------
(* Types of the column, the history and the calls. *)
TypeOK ==
    /\ log \in Seq(Entry)
    /\ appended \in Seq(Entry)
    /\ call \in [Call -> [pc : {"idle", "read", "cas", "done", "dropped", "failed"},
                          entry : Entry \cup {NoEntry},
                          read : Seq(Entry),
                          tries : 0 .. rotationLogCASAttempts]]

(* The column is the most recent logCap appends, in the order they landed:  *)
(* overlapping calls of appendRotationLog lose, repeat or reorder nothing,  *)
(* although the swap compares text that may have come back.                 *)
LogIsRecentHistory ==
    /\ Len(log) = IF Len(appended) < logCap THEN Len(appended) ELSE logCap
    /\ \A i \in 1 .. Len(log) : log[i] = appended[Len(appended) - Len(log) + i]

(* The bound on attempts drops an entry only after as many other appends    *)
(* landed: with no more than rotationLogCASAttempts rotations overlapping,  *)
(* "the loop converges" and no history line is missing.                     *)
DroppedOnlyUnderContention ==
    \A c \in Call : call[c].pc = "dropped" => Len(appended) >= rotationLogCASAttempts

(* Why it holds: each failed attempt of a call is paid for by an append of  *)
(* another call, and a swap about to miss by one more.                      *)
MissesArePaidFor ==
    \A c \in Call :
        /\ call[c].pc \in {"idle", "read", "cas"} =>
             call[c].tries < rotationLogCASAttempts /\ call[c].tries <= Len(appended)
        /\ call[c].pc = "cas" /\ log # call[c].read => call[c].tries < Len(appended)
        /\ call[c].pc \in {"read", "cas"} => call[c].entry \in Entry
============================================================================
