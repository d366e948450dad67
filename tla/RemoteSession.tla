--------------------------- MODULE RemoteSession ---------------------------
(***************************************************************************)
(* A WebSocket session (music-server websocket.rs): the reader and the     *)
(* writer task of each socket, the bounded mailbox of the playback owner   *)
(* they ask, the latest-state and event channels it feeds them by, the     *)
(* login session that may be revoked meanwhile, and the REST handler that  *)
(* renames the remembered device the sockets register (devices.rs).        *)
(*                                                                         *)
(* All sockets are tabs of one client.  The owner is a revision, the clock *)
(* of its samples and its connections; PlaybackActor has its state.        *)
(***************************************************************************)
EXTENDS Naturals, Sequences, FiniteSets

CONSTANTS
    Sockets,
    Handlers,    \* REST handlers that save or forget the device
    Names,       \* what the device may be called
    RemoteNone,
    Capacity,    \* of the owner's mailbox
    EventBuffer, \* events the channel keeps for a slow reader
    Interval,    \* SESSION_RECHECK_INTERVAL in ticks
    Features,    \* which of "revoke", "act", "register" may happen
    MaxMessages, \* bound on the actions clients send
    MaxChanges,  \* bound on changes by others
    MaxEvents    \* bound on events

ASSUME RemoteSessionAssumption ==
    /\ {Capacity, EventBuffer, Interval} \subseteq Nat \ {0}
    /\ {MaxMessages, MaxChanges, MaxEvents} \subseteq Nat
    /\ Sockets \cap Handlers = {}

VARIABLES
    rev,    \* the publication revision of the playback state
    clock,  \* samples of the owner's clock so far
    latest, \* the latest publication: [n, rev, clock]
    conns,  \* the owner's connections: None, "open" or the name shown for the device
    mail,   \* the mailbox: [task, msg], in order
    call,   \* what each task asks of the owner: [st, msg, answer]
    events, \* events emitted
    sock,   \* the tasks of each socket
    valid,  \* the login session is in the database
    since,  \* ticks since it was revoked, up to Interval
    device, \* the remembered device in the database: its name, or None
    hand,   \* the REST handlers: "idle", "asks", "done"
    used    \* what the bounds count: [messages, changes]

vars == <<rev, clock, latest, conns, mail, call, events, sock, valid, since, device, hand, used>>
owner == <<rev, clock, latest, conns>>
rest == <<device, hand>>
session == <<valid, since>>

Reader(s) == <<s, "reader">>
Writer(s) == <<s, "writer">>
Rest(h) == <<h, "rest">>
Tasks == {Reader(s) : s \in Sockets} \cup {Writer(s) : s \in Sockets} \cup {Rest(h) : h \in Handlers}

NoCall == [st |-> "none", msg |-> [kind |-> "none"], answer |-> [rev |-> 0, clock |-> 0]]
NoSocket == [r |-> "closed", doing |-> "nothing", auth |-> FALSE, age |-> 0, hung |-> FALSE, cancelled |-> FALSE,
             proj |-> [auth |-> FALSE, n |-> 0], error |-> FALSE,
             w |-> "none", seen |-> 0, shown |-> 0, held |-> FALSE, next |-> 0,
             rev |-> 0, clock |-> 0, full |-> FALSE, told |-> FALSE, leaked |-> FALSE, abandoned |-> FALSE]
\* The name a connection is shown under: the remembered one, or its own.
Shown(name) == IF name = RemoteNone THEN "own" ELSE name

-----------------------------------------------------------------------------
(* Asking the owner: PlaybackActorHandle::request *)
Ask(t, msg) == call' = [call EXCEPT ![t] = [NoCall EXCEPT !.st = "send", !.msg = msg]]
Answered(t) == call[t].st = "done"
Forget(t) == call' = [call EXCEPT ![t] = NoCall]

\* The send waits for a place in the mailbox.
Post(t) ==
    /\ call[t].st = "send" /\ Len(mail) < Capacity
    /\ mail' = Append(mail, [task |-> t, msg |-> call[t].msg])
    /\ call' = [call EXCEPT ![t].st = "queued"]
    /\ UNCHANGED <<owner, events, sock, session, rest, used>>

Published(r) == rev' = r /\ latest' = [n |-> latest.n + 1, rev |-> r, clock |-> clock']

\* commit_external_change: nothing is published when the list of clients is what it was, which it
\* may be only when another tab is registered.
Connected(s, name) ==
    /\ conns' = [conns EXCEPT ![s] = name]
    /\ \/ Published(rev + 1)
       \/ (\E z \in Sockets \ {s} : conns[z] \notin {RemoteNone, "open"}) /\ UNCHANGED <<rev, latest>>

\* handle_message
Effect(s, msg) ==
    CASE msg.kind = "snapshot" -> UNCHANGED <<rev, latest, conns>>
      [] msg.kind = "open" -> conns' = [conns EXCEPT ![s] = "open"] /\ UNCHANGED <<rev, latest>>
      [] msg.kind = "act" -> Published(rev + 1) /\ UNCHANGED conns
      [] msg.kind = "register" ->
           IF conns[s] = msg.name THEN UNCHANGED <<rev, latest, conns>> ELSE Connected(s, msg.name)
      [] msg.kind = "refresh" ->
           /\ conns' = [z \in Sockets |-> IF conns[z] \in {RemoteNone, "open"} THEN conns[z] ELSE msg.name]
           /\ IF conns' # conns THEN Published(rev) ELSE UNCHANGED <<rev, latest>>
      [] msg.kind = "disconnect" ->
           IF conns[s] = "open" THEN conns' = [conns EXCEPT ![s] = RemoteNone] /\ UNCHANGED <<rev, latest>>
           ELSE Connected(s, RemoteNone)
Serve ==
    /\ mail # <<>>
    /\ LET t == Head(mail).task
       IN  /\ clock' = clock + 1
           /\ Effect(t[1], Head(mail).msg)
           /\ call' = IF call[t].st # "queued" THEN call
                      ELSE [call EXCEPT ![t].st = "done", ![t].answer = [rev |-> rev', clock |-> clock']]
    /\ mail' = Tail(mail)
    /\ UNCHANGED <<events, sock, session, rest, used>>

\* Someone else's command, or a timer, changes the state.
Change ==
    /\ used.changes < MaxChanges
    /\ used' = [used EXCEPT !.changes = @ + 1]
    /\ clock' = clock + 1 /\ Published(rev + 1)
    /\ UNCHANGED <<conns, mail, call, events, sock, session, rest>>
Emit ==
    /\ events < MaxEvents
    /\ events' = events + 1
    /\ UNCHANGED <<owner, mail, call, sock, session, rest, used>>

-----------------------------------------------------------------------------
(* Opening: websocket_upgrade and websocket_session *)
Set(s, rec) == sock' = [sock EXCEPT ![s] = rec]
\* send_projected_state
Wrote(rec, state, full) ==
    [rec EXCEPT !.rev = state.rev, !.clock = state.clock, !.full = full, !.leaked = @ \/ (rec.told /\ full)]
Elsewhere == UNCHANGED <<owner, mail, events, session, rest, used>>

Open(s) ==
    /\ sock[s].r = "closed"
    /\ Set(s, [NoSocket EXCEPT !.r = "opening", !.auth = valid])
    /\ Ask(Reader(s), [kind |-> "open"])
    /\ Elsewhere

\* The latest publication is marked as seen before the snapshot is asked for.
Subscribe(s) ==
    /\ sock[s].r = "opening" /\ Answered(Reader(s))
    /\ Set(s, [sock[s] EXCEPT !.r = "first", !.seen = latest.n])
    /\ Ask(Reader(s), [kind |-> "snapshot"])
    /\ Elsewhere

\* Mutant: the publications are marked as seen when the snapshot has come.
StartMarked(s) ==
    /\ sock[s].r = "first" /\ Answered(Reader(s))
    /\ Set(s, Wrote([sock[s] EXCEPT !.r = "loop", !.w = "poll", !.seen = latest.n, !.next = events, !.proj.auth = sock[s].auth],
                    call[Reader(s)].answer, sock[s].auth))
    /\ Forget(Reader(s))
    /\ Elsewhere
\* The writer starts with the snapshot, the reader with its loop.
Start(s) ==
    /\ sock[s].r = "first" /\ Answered(Reader(s))
    /\ Set(s, Wrote([sock[s] EXCEPT !.r = "loop", !.w = "poll", !.next = events, !.proj.auth = sock[s].auth],
                    call[Reader(s)].answer, sock[s].auth))
    /\ Forget(Reader(s))
    /\ Elsewhere

-----------------------------------------------------------------------------
(* The reader *)
\* The client goes away, at any time.
HangUp(s) ==
    /\ sock[s].r \notin {"closed", "gone"} /\ ~sock[s].hung
    /\ Set(s, [sock[s] EXCEPT !.hung = TRUE])
    /\ UNCHANGED call /\ Elsewhere

Listening(s) == sock[s].r = "loop" /\ ~sock[s].hung /\ ~sock[s].cancelled

Message(s) ==
    /\ Listening(s) /\ used.messages < MaxMessages
    /\ used' = [used EXCEPT !.messages = @ + 1]
    /\ \E kind \in {"act", "register"} \cap Features : Set(s, [sock[s] EXCEPT !.doing = kind, !.r = "check"])
    /\ UNCHANGED <<owner, mail, call, events, session, rest>>
\* session_recheck.tick
Recheck(s) ==
    /\ Listening(s) /\ sock[s].auth
    /\ Set(s, [sock[s] EXCEPT !.doing = "recheck", !.r = "check"])
    /\ UNCHANGED call /\ Elsewhere

\* refresh_authorization: whether the database is asked again, and the time of asking.
Check(s) ==
    /\ sock[s].r = "check"
    /\ Set(s, IF sock[s].auth /\ sock[s].age >= Interval THEN [sock[s] EXCEPT !.age = 0, !.r = "query"]
              ELSE [sock[s] EXCEPT !.r = "decide"])
    /\ UNCHANGED call /\ Elsewhere

\* The database's answer; a session that is gone downgrades the socket ...
Query(s) ==
    /\ sock[s].r = "query"
    /\ Set(s, IF valid THEN [sock[s] EXCEPT !.r = "decide"]
              ELSE [sock[s] EXCEPT !.r = "tell", !.auth = FALSE, !.proj = [auth |-> FALSE, n |-> @.n + 1]])
    /\ UNCHANGED call /\ Elsewhere
\* ... and then the client is told.
Tell(s) ==
    /\ sock[s].r = "tell"
    /\ Set(s, [sock[s] EXCEPT !.r = "decide", !.error = TRUE])
    /\ UNCHANGED call /\ Elsewhere

\* handle_action after the check: a guest is refused, a registration looks the device up first.
Decide(s) ==
    /\ sock[s].r = "decide"
    /\ IF sock[s].doing = "act" /\ sock[s].auth
       THEN Set(s, [sock[s] EXCEPT !.r = "wait"]) /\ Ask(Reader(s), [kind |-> "act"])
       ELSE /\ Set(s, [sock[s] EXCEPT !.r = IF sock[s].doing = "register" THEN "find" ELSE "loop"])
            /\ UNCHANGED call
    /\ Elsewhere
Find(s) ==
    /\ sock[s].r = "find"
    /\ Set(s, [sock[s] EXCEPT !.r = "registering"])
    /\ Ask(Reader(s), [kind |-> "register", name |-> Shown(device)])
    /\ Elsewhere
Registered(s) ==
    /\ sock[s].r = "registering" /\ Answered(Reader(s))
    /\ Set(s, [sock[s] EXCEPT !.r = "loop", !.proj = [auth |-> sock[s].auth, n |-> @.n + 1]])
    /\ Forget(Reader(s))
    /\ Elsewhere
Acted(s) ==
    /\ sock[s].r = "wait" /\ Answered(Reader(s))
    /\ Set(s, [sock[s] EXCEPT !.r = "loop"])
    /\ Forget(Reader(s))
    /\ Elsewhere

\* The loop ends, the writer is awaited or aborted, and the owner is told.
Leave(s) ==
    /\ sock[s].r = "loop" /\ (sock[s].hung \/ sock[s].cancelled)
    /\ Set(s, [sock[s] EXCEPT !.r = "finish", !.cancelled = TRUE])
    /\ UNCHANGED call /\ Elsewhere
\* Mutant: a socket that has not registered is not disconnected.
FinishRegistered(s) ==
    /\ sock[s].r = "finish"
    /\ Set(s, [sock[s] EXCEPT !.r = IF sock[s].proj.n = 0 THEN "gone" ELSE "bye", !.w = "ended"])
    /\ call' = [call EXCEPT ![Writer(s)] = NoCall,
                            ![Reader(s)] = IF sock[s].proj.n = 0 THEN NoCall
                                           ELSE [NoCall EXCEPT !.st = "send", !.msg = [kind |-> "disconnect"]]]
    /\ Elsewhere
Finish(s) ==
    /\ sock[s].r = "finish"
    /\ Set(s, [sock[s] EXCEPT !.r = "bye", !.w = "ended"])
    /\ call' = [call EXCEPT ![Writer(s)] = NoCall,
                            ![Reader(s)] = [NoCall EXCEPT !.st = "send", !.msg = [kind |-> "disconnect"]]]
    /\ Elsewhere
\* The answer, or DISCONNECT_TIMEOUT: a farewell in the mailbox is served later, one that still waits
\* for a place there is dropped with its request.
Bye(s) ==
    /\ sock[s].r = "bye"
    /\ call[Reader(s)].st = "send" => Len(mail) = Capacity
    /\ Set(s, [sock[s] EXCEPT !.r = "gone", !.abandoned = call[Reader(s)].st = "send"])
    /\ Forget(Reader(s))
    /\ Elsewhere

-----------------------------------------------------------------------------
(* The writer: select! polls the commands and the publications, then the projection and the events *)
WriteError(s) ==
    /\ sock[s].w = "poll" /\ sock[s].error
    /\ Set(s, [sock[s] EXCEPT !.error = FALSE, !.told = TRUE])
    /\ UNCHANGED call /\ Elsewhere
WritePublication(s) ==
    /\ sock[s].w = "poll" /\ sock[s].seen # latest.n
    /\ Set(s, Wrote([sock[s] EXCEPT !.seen = latest.n], latest, sock[s].proj.auth))
    /\ UNCHANGED call /\ Elsewhere
PollOn(s) ==
    /\ sock[s].w = "poll" /\ sock[s].seen = latest.n /\ ~sock[s].error /\ ~sock[s].cancelled
    /\ sock[s].shown # sock[s].proj.n \/ sock[s].next # events
    /\ Set(s, [sock[s] EXCEPT !.w = "past"])
    /\ UNCHANGED call /\ Elsewhere
AskProjection(s) ==
    /\ sock[s].w = "past" /\ sock[s].shown # sock[s].proj.n
    /\ Set(s, [sock[s] EXCEPT !.w = "snap", !.shown = sock[s].proj.n, !.held = sock[s].proj.auth])
    /\ Ask(Writer(s), [kind |-> "snapshot"])
    /\ Elsewhere
WriteProjection(s) ==
    /\ sock[s].w = "snap" /\ Answered(Writer(s))
    /\ Set(s, Wrote([sock[s] EXCEPT !.w = "poll"], call[Writer(s)].answer, sock[s].held))
    /\ Forget(Writer(s))
    /\ Elsewhere
\* An event, or the end of a writer that has missed one.
WriteEvent(s) ==
    /\ sock[s].w = "past" /\ sock[s].shown = sock[s].proj.n /\ sock[s].next < events
    /\ Set(s, IF events - sock[s].next > EventBuffer THEN [sock[s] EXCEPT !.w = "ended", !.cancelled = TRUE]
              ELSE [sock[s] EXCEPT !.w = "poll", !.next = @ + 1])
    /\ UNCHANGED call /\ Elsewhere
\* The end of the writer, told by the reader or by a send that fails or takes too long.
EndWriter(s) ==
    /\ sock[s].w \in {"poll", "snap"} /\ (sock[s].cancelled \/ sock[s].hung)
    /\ sock[s].w = "snap" => Answered(Writer(s))
    /\ Set(s, [sock[s] EXCEPT !.w = "ended", !.cancelled = TRUE])
    /\ Forget(Writer(s))
    /\ Elsewhere

-----------------------------------------------------------------------------
(* The login session and the remembered device *)
Revoke ==
    /\ "revoke" \in Features /\ valid
    /\ valid' = FALSE
    /\ UNCHANGED <<owner, mail, call, events, sock, since, rest, used>>
\* Time passes; opening a socket takes less than a tick, and nothing is awaited between a check and
\* its decision.
Tick ==
    /\ "revoke" \in Features /\ \A s \in Sockets : sock[s].r \notin {"opening", "first", "decide"}
    /\ since' = IF valid \/ since > Interval THEN since ELSE since + 1
    /\ sock' = [s \in Sockets |-> [sock[s] EXCEPT !.age = IF @ > Interval THEN @ ELSE @ + 1]]
    /\ UNCHANGED <<owner, mail, call, events, valid, rest, used>>

\* save_device and forget_device: the row, then the owner.
Save(h) ==
    /\ hand[h] = "idle"
    /\ \E name \in Names \cup {RemoteNone} :
          /\ device' = name
          /\ Ask(Rest(h), [kind |-> "refresh", name |-> Shown(name)])
    /\ hand' = [hand EXCEPT ![h] = "asks"]
    /\ UNCHANGED <<owner, mail, events, sock, session, used>>
Saved(h) ==
    /\ hand[h] = "asks" /\ Answered(Rest(h))
    /\ hand' = [hand EXCEPT ![h] = "done"]
    /\ Forget(Rest(h))
    /\ UNCHANGED <<owner, mail, events, sock, session, device, used>>

-----------------------------------------------------------------------------
Init ==
    /\ rev = 0 /\ clock = 0 /\ latest = [n |-> 0, rev |-> 0, clock |-> 0]
    /\ conns = [s \in Sockets |-> RemoteNone]
    /\ mail = <<>> /\ call = [t \in Tasks |-> NoCall] /\ events = 0
    /\ sock = [s \in Sockets |-> NoSocket]
    /\ valid = TRUE /\ since = 0
    /\ device \in Names \cup {RemoteNone} /\ hand = [h \in Handlers |-> "idle"]
    /\ used = [messages |-> 0, changes |-> 0]

ReaderStep(s) ==
    \/ Subscribe(s) \/ Start(s) \/ Check(s) \/ Query(s) \/ Tell(s) \/ Decide(s) \/ Find(s)
    \/ Registered(s) \/ Acted(s) \/ Leave(s) \/ Finish(s) \/ Bye(s)
WriterStep(s) ==
    \/ WriteError(s) \/ WritePublication(s) \/ PollOn(s) \/ AskProjection(s)
    \/ WriteProjection(s) \/ WriteEvent(s) \/ EndWriter(s)
Next ==
    \/ \E s \in Sockets : Open(s) \/ HangUp(s) \/ Message(s) \/ Recheck(s) \/ ReaderStep(s) \/ WriterStep(s)
    \/ \E t \in Tasks : Post(t)
    \/ \E h \in Handlers : Save(h) \/ Saved(h)
    \/ Serve \/ Change \/ Emit \/ Revoke \/ Tick

Spec == Init /\ [][Next]_vars
\* Tasks go on, the mailbox lets everyone in in turn, time passes and the recheck timer fires.
LiveSpec ==
    /\ Spec
    /\ \A s \in Sockets : WF_vars(ReaderStep(s)) /\ WF_vars(WriterStep(s)) /\ SF_vars(Recheck(s))
    /\ \A t \in Tasks : SF_vars(Post(t))
    /\ WF_vars(Serve) /\ SF_vars(Tick)

-----------------------------------------------------------------------------
TypeOK ==
    /\ Len(mail) <= Capacity /\ latest.rev <= rev /\ latest.clock <= clock
    /\ DOMAIN conns = Sockets
    /\ \A s \in Sockets : conns[s] \in Names \cup {RemoteNone, "open", "own"}
    /\ \A s \in Sockets : sock[s].seen <= latest.n /\ sock[s].next <= events /\ sock[s].shown <= sock[s].proj.n

\* A socket with nothing left to write shows the state the owner published last, to those who may
\* see it: no publication falls between the snapshot a socket starts from and its subscription,
\* and none is skipped for another push.
UpToDate ==
    \A s \in Sockets :
      /\ sock[s].w = "poll" /\ ~sock[s].error /\ ~sock[s].cancelled
      /\ sock[s].seen = latest.n /\ sock[s].shown = sock[s].proj.n
      => sock[s].rev >= latest.rev /\ sock[s].clock >= latest.clock /\ sock[s].full = sock[s].proj.auth

\* A client that was told its session is gone is never sent the operator's state again.
GuestOnceTold == \A s \in Sockets : ~sock[s].leaked

\* What a socket shows is the newest state its session may see.
ShowsWhatItMay == UpToDate /\ GuestOnceTold

\* The owner keeps no connection of a socket that has ended, once the mailbox has nothing of it left.
\* One case is excepted: a mailbox that stays full for the DISCONNECT_TIMEOUT of websocket.rs costs the
\* socket its farewell, and its connection stays.
GoneIsRemoved ==
    \A s \in Sockets :
      sock[s].r = "gone" /\ ~sock[s].abandoned /\ (\A i \in 1 .. Len(mail) : mail[i].task # Reader(s)) => conns[s] = RemoteNone

=============================================================================
