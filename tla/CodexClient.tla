---------------------------- MODULE CodexClient ----------------------------
(***************************************************************************)
(* codexapp: Client speaks JSON-RPC over a transport with the app server;  *)
(* goroutines call it and one readLoop takes the lines that come back.     *)
(* Engine.Run starts or resumes a thread, starts a turn and collects the   *)
(* turn's text from the notifications, which all turns share.              *)
(*                                                                         *)
(* The server answers as internal/fakecodexapp does, a reply and then the  *)
(* turn's notifications.  A delta is the number of the turn it belongs to. *)
(***************************************************************************)
EXTENDS Sequences, Naturals, FiniteSets, SequencesExt

CONSTANTS
    Runners,      \* goroutines that run the engine
    NoteCap,      \* capacity of Client.notes (512 in the code)
    MaxTimeouts,  \* bound: contexts that expire
    MaxCalls      \* bound: calls after which the engine is not run again

ASSUME CodexAssumption == NoteCap \in Nat \ {0} /\ MaxTimeouts \in Nat /\ MaxCalls \in Nat

VARIABLES
    nextID,    \* Client.nextID
    pending,   \* Client.pending: the ids somebody waits for
    answers,   \* what the channel of an id holds
    inbox,     \* requests on their way to the server
    lines,     \* lines on their way to readLoop
    notes,     \* Client.notes
    closed,    \* Client.done is closed
    reading,   \* readLoop runs
    eof,       \* the server's output has ended
    thread,    \* the thread the engine is bound to, 0 for none
    turns,     \* turns the server has started
    run,       \* where each runner is in Engine.Run
    timeouts   \* contexts that expired so far (bounded)

codexVars == <<nextID, pending, answers, inbox, lines, notes, closed, reading, eof, thread, turns, run,
               timeouts>>
rpcVars == <<nextID, pending, answers>>

NoRun == [phase |-> "idle", id |-> 0, turn |-> 0, text |-> <<>>, outcome |-> "none"]
Waiting == {"thread", "turn"}
Methods == {"thread/start", "thread/resume", "turn/start"}

RunIn(c, phase) == run[c].phase = phase
EndRun(c, outcome) == run' = [run EXCEPT ![c].phase = "done", ![c].outcome = outcome]

\* Client.Call up to its wait: the id is pending before the request is sent;
\* once the server has ended the send may fail, and the id is taken back.
Call(c, method, phase) ==
    /\ nextID' = nextID + 1
    /\ \/ /\ eof
          /\ EndRun(c, "error")
          /\ UNCHANGED <<pending, inbox>>
       \/ /\ pending' = pending \cup {nextID + 1}
          /\ inbox' = IF eof THEN inbox ELSE Append(inbox, [id |-> nextID + 1, method |-> method])
          /\ run' = [run EXCEPT ![c].phase = phase, ![c].id = nextID + 1]
    /\ UNCHANGED <<answers, lines, notes, closed, reading, eof, thread, turns, timeouts>>

\* Engine.Run begins with its thread, a new one or the one it is bound to.
OpenThread(c) ==
    /\ RunIn(c, "start")
    /\ Call(c, IF thread = 0 THEN "thread/start" ELSE "thread/resume", "thread")

\* The server's answer to a request: the reply, and for a turn its text and
\* its end.
Serve ==
    LET q == Head(inbox)
        t == turns + 1
        reply(v) == [type |-> "reply", id |-> q.id, value |-> v]
        note(m)  == [type |-> m, turn |-> t]
    IN  /\ inbox # <<>> /\ ~eof
        /\ inbox' = Tail(inbox)
        /\ IF q.method = "turn/start"
           THEN /\ turns' = t
                /\ lines' = lines \o <<reply(t), note("delta"), note("completed")>>
           ELSE lines' = Append(lines, reply(1)) /\ UNCHANGED turns
        /\ UNCHANGED <<rpcVars, notes, closed, reading, eof, thread, run, timeouts>>

\* The server ends, by itself or because Client.Close kills it.
ServerExits ==
    /\ ~eof /\ eof' = TRUE
    /\ inbox' = <<>>
    /\ closed' \in {closed, TRUE}
    /\ UNCHANGED <<rpcVars, lines, notes, reading, thread, turns, run, timeouts>>

Put(id, v) == [i \in DOMAIN answers \cup {id} |-> IF i = id THEN v ELSE answers[i]]
Drop(id) == [i \in DOMAIN answers \ {id} |-> answers[i]]

\* readLoop takes a line: a reply goes to the call that waits for its id, a
\* notification is dropped when nobody has taken the earlier ones.
ReadLine ==
    LET line == Head(lines)
    IN  /\ reading /\ lines # <<>>
        /\ lines' = Tail(lines)
        /\ IF line.type = "reply"
           THEN /\ pending' = pending \ {line.id}
                /\ answers' = IF line.id \in pending THEN Put(line.id, line.value) ELSE answers
                /\ UNCHANGED notes
           ELSE /\ notes' = IF Len(notes) < NoteCap THEN Append(notes, line) ELSE notes
                /\ UNCHANGED <<pending, answers>>
        /\ UNCHANGED <<nextID, inbox, closed, reading, eof, thread, turns, run, timeouts>>

\* The output ends: failAll closes the client and answers everybody.
FailAll ==
    /\ reading /\ eof /\ lines = <<>>
    /\ closed' = TRUE /\ reading' = FALSE
    /\ answers' = [id \in DOMAIN answers \cup pending |-> IF id \in pending THEN 0 ELSE answers[id]]
    /\ pending' = {}
    /\ UNCHANGED <<nextID, inbox, lines, notes, eof, thread, turns, run, timeouts>>

\* readLoop notices that the client was closed.
StopReading ==
    /\ reading /\ closed /\ reading' = FALSE
    /\ UNCHANGED <<rpcVars, inbox, lines, notes, closed, eof, thread, turns, run, timeouts>>

\* Call returns with the answer in its channel; what Engine.Run does next is
\* to start the turn, or to collect its notifications.
Return(c) ==
    LET id == run[c].id
        v  == answers[id]
    IN  /\ run[c].phase \in Waiting /\ id \in DOMAIN answers
        /\ answers' = Drop(id)
        /\ IF v = 0 THEN EndRun(c, "error") /\ UNCHANGED thread
           ELSE IF RunIn(c, "thread")
           THEN thread' = v /\ run' = [run EXCEPT ![c].phase = "opened"]
           ELSE /\ run' = [run EXCEPT ![c].phase = "collect", ![c].turn = v]
                /\ UNCHANGED thread
        /\ UNCHANGED <<nextID, pending, inbox, lines, notes, closed, reading, eof, turns, timeouts>>

\* Variant: a call that gives up leaves its id pending.
GiveUpLeaking(c) ==
    /\ run[c].phase \in Waiting
    /\ \/ closed /\ UNCHANGED timeouts
       \/ timeouts < MaxTimeouts /\ timeouts' = timeouts + 1
    /\ EndRun(c, "error")
    /\ answers' = Drop(run[c].id)
    /\ UNCHANGED <<nextID, pending, inbox, lines, notes, closed, reading, eof, thread, turns>>

\* Call returns because its context expired or the client closed; a reply
\* that comes later finds no pending id.
GiveUp(c) ==
    /\ run[c].phase \in Waiting
    /\ \/ closed /\ UNCHANGED timeouts
       \/ timeouts < MaxTimeouts /\ timeouts' = timeouts + 1
    /\ EndRun(c, "error")
    /\ pending' = pending \ {run[c].id}
    /\ answers' = Drop(run[c].id)
    /\ UNCHANGED <<nextID, inbox, lines, notes, closed, reading, eof, thread, turns>>

StartTurn(c) == RunIn(c, "opened") /\ Call(c, "turn/start", "turn")

\* CollectTurnObserved takes the next notification, of whatever turn: every
\* delta is appended, and only the end of its own turn ends it.
Noted(r, n) ==
    IF n.type = "delta" THEN [r EXCEPT !.text = Append(@, n.turn)]
    ELSE IF n.turn = r.turn THEN [r EXCEPT !.phase = "done", !.outcome = "ok"]
    ELSE r

Collect(c) ==
    /\ RunIn(c, "collect") /\ notes # <<>>
    /\ notes' = Tail(notes)
    /\ run' = [run EXCEPT ![c] = Noted(@, Head(notes))]
    /\ UNCHANGED <<rpcVars, inbox, lines, closed, reading, eof, thread, turns, timeouts>>

\* It also returns when its context expires or the client closes.
CollectEnds(c) ==
    /\ RunIn(c, "collect")
    /\ \/ closed /\ UNCHANGED timeouts
       \/ timeouts < MaxTimeouts /\ timeouts' = timeouts + 1
    /\ EndRun(c, "error")
    /\ UNCHANGED <<rpcVars, inbox, lines, notes, closed, reading, eof, thread, turns>>

EngineRun(c) ==
    OpenThread(c) \/ Return(c) \/ GiveUp(c) \/ StartTurn(c) \/ Collect(c) \/ CollectEnds(c)

Server == Serve \/ ServerExits
ReadLoop == ReadLine \/ FailAll \/ StopReading

\* Engine.Run is called, and its outcome taken.
BeginRun(c) ==
    /\ RunIn(c, "idle") /\ nextID < MaxCalls
    /\ run' = [run EXCEPT ![c] = [NoRun EXCEPT !.phase = "start"]]
    /\ UNCHANGED <<rpcVars, inbox, lines, notes, closed, reading, eof, thread, turns, timeouts>>

TakeRun(c) ==
    /\ RunIn(c, "done")
    /\ run' = [run EXCEPT ![c] = NoRun]
    /\ UNCHANGED <<rpcVars, inbox, lines, notes, closed, reading, eof, thread, turns, timeouts>>

CodexInit ==
    /\ nextID = 0 /\ pending = {} /\ answers = <<>>
    /\ inbox = <<>> /\ lines = <<>> /\ notes = <<>>
    /\ closed = FALSE /\ reading = TRUE /\ eof = FALSE
    /\ thread = 0 /\ turns = 0 /\ timeouts = 0
    /\ run = [c \in Runners |-> NoRun]

-----------------------------------------------------------------------------
CodexTypeOK ==
    /\ nextID \in Nat /\ turns \in Nat /\ thread \in 0..1
    /\ timeouts \in 0..MaxTimeouts
    /\ pending \subseteq 1..nextID /\ DOMAIN answers \subseteq 1..nextID
    /\ \A i \in DOMAIN inbox : inbox[i] \in [id : 1..nextID, method : Methods]
    /\ Len(notes) <= NoteCap
    /\ closed \in BOOLEAN /\ reading \in BOOLEAN /\ eof \in BOOLEAN
    /\ \A c \in Runners : run[c].phase \in
         {"idle", "start", "thread", "opened", "turn", "collect", "done"}

\* An id is pending, or its channel filled, for exactly one call that still
\* waits for it and never for both: no entry leaks when a reply, a timeout
\* and the end of the server meet, and no call is left without either
\* (Client.Call, removePending, readLoop and failAll).
PendingIsAwaited ==
    /\ \A id \in pending \cup DOMAIN answers :
         \E c \in Runners : run[c].phase \in Waiting /\ run[c].id = id
    /\ pending \cap DOMAIN answers = {}
    /\ \A c \in Runners : run[c].phase \in Waiting => run[c].id \in pending \cup DOMAIN answers
=============================================================================
