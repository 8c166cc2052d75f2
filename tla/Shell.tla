--------------------------------- MODULE Shell ---------------------------------
(***************************************************************************)
(* What a user is shown: visualshell.Server asks presentation.Shell, whose *)
(* client (corehost.Connect) asks the core that runtime.json names, which  *)
(* answers from its files (corehost.Host over FileBackend).  None of them  *)
(* keeps more than the client; but the core may be replaced, at the same   *)
(* address, between any two of the reads that make up an answer.           *)
(*                                                                         *)
(* A core is what it answers from: its identity, address and credential,   *)
(* its task files in the order of their names, the length of its timeline  *)
(* and the number of recorded requests.  What may fail returns a set, with *)
(* the result in it or none.                                               *)
(***************************************************************************)
EXTENDS SequencesExt, Integers

CONSTANTS
    PageMax,     \* events of a page: 100
    ShellMax,    \* the limit a renderer may ask for: 200
    ResponseMax  \* what a client reads of an answer

ASSUME ShellAssumption == PageMax \in Nat \ {0} /\ ShellMax \in Nat /\ ResponseMax \in Nat

Torn  == "torn"     \* a task file that does not load
Empty == "empty"    \* one without a line
NoFile == [kind |-> "none"]
Least(a, b) == IF a < b THEN a ELSE b

-----------------------------------------------------------------------------
\* FileBackend and Host.

Identity(host) == [build |-> host.build, install |-> host.credential.install,
                   instance |-> host.instance]

\* What a core writes to runtime.json.
Named(host) == [kind |-> "runtime", build |-> host.build, install |-> host.credential.install,
                instance |-> host.instance, address |-> host.address]

\* Every file is opened; one that does not load hides all others.
ListTasks(host) ==
    LET listed[n \in 0..Len(host.files)] ==
            IF n = 0 THEN <<>>
            ELSE IF host.files[n] = Empty THEN listed[n - 1]
            ELSE Append(listed[n - 1], host.files[n])
    IN  IF Torn \in Range(host.files) THEN {} ELSE {listed[Len(host.files)]}

GetTask(host, id) == {f \in Range(host.files) \ {Torn, Empty} : f = id}

BackendStatus(host) ==
    {[build |-> host.build, tasks |-> Len(t), events |-> host.events,
      requests |-> host.requests] : t \in ListTasks(host)}

\* Variant: the cursor is the first event that is wanted.
TimelineFromCursor(host, after, limit) ==
    LET size == IF limit <= 0 \/ limit > PageMax THEN PageMax ELSE limit
        from == IF after = 0 THEN 1 ELSE after
        last == Least(host.events, from + size - 1)
    IN  [i \in 1..(last - from + 1) |-> from + i - 1]

\* Backend.Timeline: sequences count from 1, the cursor is the last one seen.
Timeline(host, after, limit) ==
    LET size == IF limit <= 0 \/ limit > PageMax THEN PageMax ELSE limit
        last == Least(host.events, after + size)
    IN  [i \in 1..(last - after) |-> after + i]

\* Host.handleSnapshot: one state, under stateMu.
Snapshot(host, after, limit) ==
    LET page == Timeline(host, after, limit)
    IN  {[identity |-> Identity(host), status |-> s, tasks |-> t, timeline |-> page,
          after |-> after, next |-> IF page = <<>> THEN after ELSE Last(page)] :
            s \in BackendStatus(host), t \in ListTasks(host)}

\* routes, authenticated, handleV1.
Handled(host, r) ==
    CASE r.path = "identity" -> {Identity(host)}
      [] r.path = "snapshot" -> Snapshot(host, r.after, r.limit)
      [] r.path = "status"   -> BackendStatus(host)
      [] r.path = "tasks"    -> ListTasks(host)
      [] r.path = "timeline" -> {Timeline(host, r.after, r.limit)}
      [] r.path = "task"     -> GetTask(host, r.id)
Answered(host, token, r) == IF token = host.credential.token THEN Handled(host, r) ELSE {}

-----------------------------------------------------------------------------
\* The credential of an installation.

Sound(file) == file.kind = "credential" /\ file.install # "" /\ file.token # ""
ReadCredential(file) == {f \in {file} : Sound(f)}

\* LoadOrCreateCredential: only a file that is not there is written.
LoadOrCreateCredential(file, fresh) == IF file = NoFile THEN {fresh} ELSE ReadCredential(file)

-----------------------------------------------------------------------------
\* APIClient.  A call sees runtime.json before and after the answer, and the
\* cores that listen in between.

ReadRuntime(file) == {f \in {file} : f.kind = "runtime"}

\* verifyRuntimeStillCurrent.
StillCurrent(client, file) == file = client.runtime

\* doJSON.
Size(r, body) == IF r.path = "snapshot" THEN Len(body.tasks) + Len(body.timeline) ELSE 1
DoJSON(client, net, r) ==
    IF StillCurrent(client, net.before) /\ StillCurrent(client, net.after)
    THEN {body \in UNION {Answered(host, client.token, r) :
                             host \in {k \in net.cores : k.address = client.runtime.address}} :
            Size(r, body) <= ResponseMax}
    ELSE {}

\* Attest, Connect: the identity that the core answers is the one that the
\* file, the credential and the caller expect.
Attested(build, credential, net, file) ==
    LET client == [runtime |-> file, token |-> credential.token,
                   identity |-> [build |-> build, install |-> credential.install,
                                 instance |-> file.instance]]
    IN  {c \in {client} : /\ file.build = build /\ file.install = credential.install
                          /\ c.identity \in DoJSON(c, net, [path |-> "identity"])}
Connect(build, credentialFile, net) ==
    UNION {Attested(build, credential, net, file) :
              credential \in ReadCredential(credentialFile), file \in ReadRuntime(net.before)}

\* Variant: the identity in a snapshot is shown but not compared.
AcceptableOfAny(client, s, after, limit) ==
    /\ s.after = after /\ s.status.build = client.identity.build
    /\ s.status.tasks = Len(s.tasks) /\ Len(s.timeline) <= Least(s.status.events, limit)
    /\ s.next = IF s.timeline = <<>> THEN after ELSE Last(s.timeline)

\* Projection: what the client checks of a snapshot.
Acceptable(client, s, after, limit) ==
    LET seen == <<after>> \o s.timeline
    IN  /\ s.identity = client.identity /\ s.status.build = client.identity.build
        /\ s.after = after /\ s.next = Last(seen)
        /\ s.status.tasks = Len(s.tasks) /\ Len(s.timeline) <= Least(s.status.events, limit)
        /\ IsInjective(s.tasks)
        /\ \A i \in 1..Len(s.timeline) : seen[i] < seen[i + 1]
Projection(client, net, after, limit) ==
    LET size == IF limit <= 0 \/ limit > PageMax THEN PageMax ELSE limit
    IN  {s \in DoJSON(client, net, [path |-> "snapshot", after |-> after, limit |-> size]) :
            Acceptable(client, s, after, size)}

-----------------------------------------------------------------------------
\* presentation.Shell and visualshell.Server: a shell is its client, if any.

Refresh(shell, net, after, limit) ==
    UNION {Projection(client, net, after, limit) : client \in shell}

\* parseLimit, of the query of a renderer: an empty one is a full page.
ParseLimit(raw) == IF raw = <<>> THEN {PageMax} ELSE {raw[1]} \cap 1..ShellMax

\* projectSnapshot: what a renderer is given of it.
ViewSnapshot(s) == [instance |-> s.identity.instance, status |-> s.status, tasks |-> s.tasks,
                    timeline |-> s.timeline, after |-> s.after, next |-> s.next]

\* Server.handleSnapshot.
Show(shell, net, after, raw) ==
    UNION {{ViewSnapshot(s) : s \in Refresh(shell, net, after, limit)} : limit \in ParseLimit(raw)}

\* Server.handleReconnect: the old client is gone whether or not a new one
\* connects.
Reconnect(build, credentialFile, net) == Connect(build, credentialFile, net)

-----------------------------------------------------------------------------
\* A core and the one that replaces it on the same directory, which keeps the
\* credential unless its file was lost, and what a caller may see of them.

Credential(i) == [kind |-> "credential", install |-> i, token |-> i]
Damaged       == [kind |-> "credential", install |-> "i", token |-> ""]
Core(instance, address, credential, files, events) ==
    [build |-> "b", instance |-> instance, address |-> address, credential |-> credential,
     files |-> files, events |-> events, requests |-> 0]
FileSets == {<<>>, <<"t1", Empty, "t2">>, <<"t1", Torn>>}
Old == Core("old", "a1", Credential("i1"), <<"t1">>, 1)
Replacements(credentialFile) ==
    {Core("new", address, c, files, 2) : address \in {"a1", "a2"}, files \in FileSets,
        c \in LoadOrCreateCredential(credentialFile, Credential("i2"))}
Nets(cores) ==
    LET files == {Named(k) : k \in cores} \cup {NoFile}
    IN  [before : files, after : files, cores : SUBSET cores]
Now(host) == [before |-> Named(host), after |-> Named(host), cores |-> {host}]

\* Whatever is read of the one and of the other, what is shown is the state of
\* the one that runtime.json names all along; and when nothing moves, the state
\* is shown if its files load and it fits.
ShownIsCurrent ==
    \A left \in {Credential("i1"), NoFile, Damaged} : \A new \in Replacements(left) :
        LET early == Reconnect("b", Credential("i1"), Now(Old))
            late  == Reconnect("b", new.credential, Now(new))
        IN  /\ \A net \in Nets({Old, new}), shell \in {early, late} :
                  \A v \in Show(shell, net, 0, <<>>) :
                      \E host \in net.cores :
                          /\ net.before = Named(host) /\ net.after = Named(host)
                          /\ v \in {ViewSnapshot(s) : s \in Snapshot(host, 0, PageMax)}
            /\ Show(late, Now(new), 0, <<>>) # {} <=> Torn \notin Range(new.files)
            /\ Show(early, Now(new), 0, <<>>) = {}

\* A renderer that asks on from where the last answer ended is given every
\* event once and in order, also while more are appended.
Longest == 2 * PageMax + 1
PagesAreExact ==
    \A limit \in 1..ShellMax, start \in 0..Longest, grows \in 0..1 :
        LET at(k) == Core("old", "a1", Credential("i1"), <<"t1">>, Least(start + grows * k, Longest))
            shell == Reconnect("b", Credential("i1"), Now(at(0)))
            pages[k \in 0..2 * Longest] ==
                IF k = 0 THEN [seen |-> <<>>, cursor |-> 0]
                ELSE LET views == Show(shell, Now(at(k)), pages[k - 1].cursor, <<limit>>)
                         v     == CHOOSE w \in views : TRUE
                     IN  IF views = {} THEN pages[k - 1]
                         ELSE [seen |-> pages[k - 1].seen \o v.timeline, cursor |-> v.next]
        IN  pages[2 * Longest].seen = [i \in 1..at(2 * Longest).events |-> i]
================================================================================
