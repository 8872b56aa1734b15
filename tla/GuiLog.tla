------------------------------- MODULE GuiLog -------------------------------
(***************************************************************************)
(* The log window: GuiLogger posts every record to the user-interface      *)
(* thread, which offers it to the bounded deque of GuiLog; the Timeline of *)
(* GuiLogView moves the records to the list it shows, keeps that list      *)
(* short, and can be paused.  Records are numbered in the order in which   *)
(* they are posted.                                                        *)
(***************************************************************************)
EXTENDS Naturals, Sequences

CONSTANTS
    MaxLogEntries,   \* capacity of the deque (GuiLog.MAX_LOG_ENTRIES)
    MaxEntries,      \* length of the list (GuiLogView.MAX_ENTRIES)
    MaxRecords       \* bound on the records

ASSUME LogAssumption ==
    MaxLogEntries \in Nat \ {0} /\ MaxEntries \in Nat \ {0} /\ MaxRecords \in Nat

Records == 1 .. MaxRecords

VARIABLES
    logged,        \* number of records posted so far
    posted,        \* records in the runLater queue
    log,           \* GuiLog.log
    logItems,      \* GuiLogView.logItems
    setup,         \* how far initializeGuiLogViewer has come
    paused,        \* the pause switch
    logTransfer,   \* status of the Timeline
    lost           \* history: records refused by the full deque

logVars == <<logged, posted, log, logItems, setup, paused, logTransfer, lost>>

LogTypeOK ==
    /\ logged \in 0 .. MaxRecords
    /\ posted \in Seq(Records) /\ log \in Seq(Records) /\ logItems \in Seq(Records)
    /\ Len(log) <= MaxLogEntries
    /\ Len(logItems) <= MaxEntries
    /\ setup \in {"bound", "added", "ready"}
    /\ paused \in BOOLEAN
    /\ logTransfer \in {"STOPPED", "RUNNING", "PAUSED"}
    /\ lost \subseteq Records

LogInit ==
    /\ logged = 0
    /\ posted = <<>> /\ log = <<>> /\ logItems = <<>>
    /\ setup = "bound"
    /\ paused = FALSE
    /\ logTransfer = "STOPPED"
    /\ lost = {}

-----------------------------------------------------------------------------
(* GuiLogger.logGUI, on any thread *)
LogGUI ==
    /\ logged < MaxRecords
    /\ logged' = logged + 1
    /\ posted' = Append(posted, logged')
    /\ UNCHANGED <<log, logItems, setup, paused, logTransfer, lost>>

(* GuiLog.offer, on the user-interface thread, which is busy until the panel is
   initialized: a full deque refuses. *)
Offer ==
    /\ setup = "ready"
    /\ posted # <<>>
    /\ posted' = Tail(posted)
    /\ \/ /\ Len(log) < MaxLogEntries
          /\ log' = Append(log, Head(posted))
          /\ UNCHANGED lost
       \/ /\ Len(log) = MaxLogEntries
          /\ lost' = lost \cup {Head(posted)}
          /\ UNCHANGED log
    /\ UNCHANGED <<logged, logItems, setup, paused, logTransfer>>

(* Mutant: the list is cut at the wrong end. *)
TrimmedAtTheEnd(s) == IF Len(s) > MaxEntries THEN SubSeq(s, 1, MaxEntries) ELSE s

(* logItems.remove(0, size - MAX_ENTRIES) *)
Trimmed(s) ==
    IF Len(s) > MaxEntries
    THEN SubSeq(s, Len(s) - MaxEntries + 1, Len(s)) ELSE s

(* A key frame of logTransfer: drainTo and trim *)
Transfer ==
    /\ setup = "ready"
    /\ logTransfer = "RUNNING"
    /\ log' = <<>>
    /\ logItems' = Trimmed(logItems \o log)
    /\ UNCHANGED <<logged, posted, setup, paused, logTransfer, lost>>

(* Mutant: the Timeline is not started. *)
AddWithoutPlay ==
    /\ setup = "bound"
    /\ setup' = "added"
    /\ UNCHANGED <<logged, posted, log, logItems, paused, logTransfer, lost>>

(* The parent listener, when the view is added to the console *)
Add ==
    /\ setup = "bound"
    /\ setup' = "added"
    /\ logTransfer' = IF paused THEN logTransfer ELSE "RUNNING"
    /\ UNCHANGED <<logged, posted, log, logItems, paused, lost>>

(* The paused listener *)
PausedListener(p) ==
    /\ paused' = p
    /\ logTransfer' = IF p /\ logTransfer = "RUNNING" THEN "PAUSED"
                      ELSE IF ~p /\ logTransfer = "PAUSED" THEN "RUNNING"
                      ELSE logTransfer

(* Mutant: the switch is restored before the view is added. *)
RestoreEarly(p) ==
    /\ setup \in {"bound", "added"}
    /\ setup' = IF setup = "added" THEN "ready" ELSE setup
    /\ PausedListener(p)
    /\ UNCHANGED <<logged, posted, log, logItems, lost>>

(* bindBooleanProperty restores the switch of the last session. *)
Restore(p) ==
    /\ setup = "added"
    /\ setup' = "ready"
    /\ PausedListener(p)
    /\ UNCHANGED <<logged, posted, log, logItems, lost>>

(* The user pauses or resumes. *)
Pause ==
    /\ setup = "ready"
    /\ PausedListener(~paused)
    /\ UNCHANGED <<logged, posted, log, logItems, setup, lost>>

ClearLogs ==
    /\ setup = "ready"
    /\ logItems' = <<>>
    /\ UNCHANGED <<logged, posted, log, setup, paused, logTransfer, lost>>

LogNext ==
    \/ LogGUI \/ Offer \/ Transfer \/ Add
    \/ \E p \in BOOLEAN : Restore(p)
    \/ Pause \/ ClearLogs

LogSpec == LogInit /\ [][LogNext]_logVars

(* The user-interface thread finishes the set-up, works through its queue and
   plays the Timeline. *)
LogFairSpec ==
    /\ LogSpec
    /\ WF_logVars(Offer) /\ WF_logVars(Transfer)
    /\ WF_logVars(Add) /\ WF_logVars(\E p \in BOOLEAN : Restore(p))

-----------------------------------------------------------------------------
Between(a, b) == {r \in Records : a < r /\ r < b}

(* s ascends, and it misses only records the full deque refused. *)
NoHoles(s) ==
    \A i \in 1 .. (Len(s) - 1) : s[i] < s[i + 1] /\ Between(s[i], s[i + 1]) \subseteq lost

AllItems == logItems \o log \o posted

(* Whatever has been posted and is not shown yet follows what is shown, in
   the order of posting and without holes other than records the full deque
   refused; the newest record is the last one (logGUI, offer, drainTo). *)
LogHasNoHoles ==
    /\ NoHoles(AllItems)
    /\ AllItems # <<>> => Between(AllItems[Len(AllItems)], logged + 1) \subseteq lost

(* Once the window is set up, the Timeline runs exactly when the switch is
   not set, so that resuming always works (the paused and parent listeners,
   initializeGuiLogViewer). *)
SwitchRulesTheTimeline ==
    setup = "ready" => logTransfer = IF paused THEN "PAUSED" ELSE "RUNNING"

(* If the pause switch is off from some time on, every record leaves the deque
   and the queue before it (logTransfer, drainTo).  That it has gone into the
   view, in order, is LogHasNoHoles. *)
RecordsLeaveTheDeque ==
    \A r \in Records :
        <>[]~paused => (logged >= r ~> \A i \in 1 .. Len(posted \o log) : (posted \o log)[i] # r)
-----------------------------------------------------------------------------
(* The inductive strengthening of the two invariants: no record is ahead of
   the count, and before the switch is restored it is off and the Timeline
   starts when the view is added. *)
LogInv ==
    /\ LogTypeOK
    /\ \A i \in 1 .. Len(AllItems) : AllItems[i] <= logged
    /\ setup = "bound" => ~paused /\ logTransfer = "STOPPED"
    /\ setup = "added" => ~paused /\ logTransfer = "RUNNING"
    /\ LogHasNoHoles
    /\ SwitchRulesTheTimeline
=============================================================================
