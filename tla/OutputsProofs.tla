--------------------------- MODULE OutputsProofs ----------------------------
(***************************************************************************)
(* What the outputs show and play: the sockets of the browser and of the   *)
(* appliances, and the appliance.                                          *)
(***************************************************************************)
EXTENDS RemoteSession, HeadlessOutput, SequenceTheorems, TLAPS

-----------------------------------------------------------------------------
(***************************************************************************)
(* The two tasks of every socket, the mailbox and the owner. That a socket *)
(* shows the newest state is not inductive: the state it has read and not  *)
(* yet written must not be older than the newest publication it has        *)
(* counted, in each place it may be (Current); that nothing leaks after a  *)
(* logout needs that the refusal, the message and the projection fall in   *)
(* this order (Downgraded). That an ended socket is removed is a separate  *)
(* invariant (Leaving), which follows the reader's one outstanding message *)
(* from the task through the mailbox to the owner.                         *)
(***************************************************************************)

SocketFields ==
  {"r", "doing", "auth", "age", "hung", "cancelled", "proj", "error", "w", "seen", "shown", "held", "next",
   "rev", "clock", "full", "told", "leaked", "abandoned"}
Fields(k) == DOMAIN k = SocketFields /\ DOMAIN k.proj = {"auth", "n"}

ReaderSteps ==
  {"closed", "opening", "first", "loop", "check", "query", "tell", "decide", "find", "registering",
   "wait", "finish", "bye", "gone"}
Waiting == {"opening", "first", "registering", "wait", "bye"}   \* for the owner

Messages ==
  [kind : {"none", "open", "snapshot", "act", "disconnect"}]
    \cup [kind : {"register", "refresh"}, name : Names \cup {RemoteNone, "own"}]
Answers == [rev : Nat, clock : Nat]
Calls == [st : {"none", "send", "queued", "done"}, msg : Messages, answer : Answers]

(* Each task has its messages. *)
Fitting(t, msg) ==
  /\ t[2] = "reader" => msg.kind \in {"open", "snapshot", "act", "register", "disconnect"}
  /\ t[2] = "writer" => msg.kind = "snapshot"
  /\ t[2] = "rest" => msg.kind = "refresh"

RemoteTyped ==
  /\ {rev, clock, latest.n, latest.rev, latest.clock} \subseteq Nat
  /\ latest.rev <= rev /\ latest.clock <= clock
  /\ DOMAIN conns = Sockets /\ DOMAIN sock = Sockets
  /\ call \in [Tasks -> Calls]
  /\ \A t \in Tasks : call[t].st \in {"send", "queued"} => Fitting(t, call[t].msg)
  /\ mail \in Seq([task : Tasks, msg : Messages])
  /\ \A i \in 1 .. Len(mail) : Fitting(mail[i].task, mail[i].msg)
  /\ device \in Names \cup {RemoteNone}

(* A state that is not older than the newest publication, unless another   *)
(* one is still to be written.                                             *)
Fresh(seen, x) == seen = latest.n => x.rev >= latest.rev /\ x.clock >= latest.clock

(* What a socket has written and is about to write. *)
Current(k, reading, writing) ==
  /\ {k.seen, k.shown, k.proj.n, k.rev, k.clock} \subseteq Nat
  /\ k.seen <= latest.n /\ k.shown <= k.proj.n
  /\ k.r \in {"closed", "opening", "first"} => k.w = "none" /\ k.shown = 0 /\ k.proj.n = 0
  /\ k.r = "first" /\ reading.st = "done" => Fresh(k.seen, reading.answer)
  /\ k.w \in {"poll", "past", "snap"} => Fresh(k.seen, k)
  /\ k.w = "snap" /\ writing.st = "done" => Fresh(k.seen, writing.answer)
  /\ k.w \in {"poll", "past"} /\ k.shown = k.proj.n => k.full = k.proj.auth
  /\ k.w = "snap" /\ k.shown = k.proj.n => k.held = k.proj.auth

(* What a socket whose login is gone may still write. *)
Downgraded(k) ==
  /\ k.r \in {"closed", "opening", "first"} => ~k.told /\ ~k.error /\ k.w = "none"
  /\ k.error \/ k.told \/ k.r = "tell" => ~k.auth /\ ~k.proj.auth
  /\ k.told /\ k.w = "snap" => ~k.held
  /\ ~k.leaked

SocketInv(s) ==
  Fields(sock[s]) /\ Current(sock[s], call[Reader(s)], call[Writer(s)]) /\ Downgraded(sock[s])
RemoteIInv == RemoteTyped /\ \A s \in Sockets : SocketInv(s)

(* The owner's connection of a socket: its reader has at most one message under way, and the *)
(* last one is the farewell, which the mailbox keeps when the reader no longer waits for it. *)
InMail(s) == \E i \in 1 .. Len(mail) : mail[i].task = Reader(s)
Leaving(s) ==
  LET c == call[Reader(s)]  r == sock[s].r
  IN  /\ r \in ReaderSteps
      /\ r \in Waiting <=> c.st # "none"
      /\ \A i \in 1 .. Len(mail) : mail[i].task = Reader(s) =>
           IF r = "gone" THEN mail[i].msg.kind = "disconnect" ELSE c.st = "queued" /\ mail[i].msg = c.msg
      /\ \A i, k \in 1 .. Len(mail) : mail[i].task = Reader(s) /\ mail[k].task = Reader(s) => i = k
      /\ c.st = "queued" => InMail(s)
      /\ r = "bye" => c.msg.kind = "disconnect"
      /\ r = "bye" /\ c.st = "done" => conns[s] = RemoteNone
      /\ r = "gone" => sock[s].abandoned \/ InMail(s) \/ conns[s] = RemoteNone
LeavingInv == \A s \in Sockets : Leaving(s)

-----------------------------------------------------------------------------
(* Tasks *)
LEMMA TaskNames ==
  /\ \A s \in Sockets : Reader(s) \in Tasks /\ Writer(s) \in Tasks
  /\ \A h \in Handlers : Rest(h) \in Tasks
  /\ \A s, z \in Sockets : s # z => Reader(s) # Reader(z) /\ Writer(s) # Writer(z)
  /\ \A s, z \in Sockets : Reader(s) # Writer(z)
  /\ \A s \in Sockets, h \in Handlers : Reader(s) # Rest(h) /\ Writer(s) # Rest(h)
  /\ \A s \in Sockets : Reader(s)[1] = s /\ Reader(s)[2] = "reader" /\ Writer(s)[1] = s /\ Writer(s)[2] = "writer"
  /\ \A h \in Handlers : Rest(h)[2] = "rest"
  /\ \A t \in Tasks : \/ \E s \in Sockets : t = Reader(s) \/ t = Writer(s)
                      \/ \E h \in Handlers : t = Rest(h)
BY DEF Reader, Writer, Rest, Tasks

(* A task at rest has no call with the owner. *)
LEMMA NoCallTyped == NoCall \in Calls /\ NoCall.st = "none"
BY DEF NoCall, Calls, Messages, Answers

(* A call that is begun waits to be sent with its message. *)
LEMMA Asked ==
  ASSUME NEW msg \in Messages
  PROVE  LET c == [NoCall EXCEPT !.st = "send", !.msg = msg]
         IN  c \in Calls /\ c.st = "send" /\ c.msg = msg
BY DEF NoCall, Calls, Messages, Answers

(* The messages the tasks send are messages. *)
LEMMA MessageKinds ==
  /\ \A kind \in {"none", "open", "snapshot", "act", "disconnect"} :
       [kind |-> kind] \in Messages /\ [kind |-> kind].kind = kind
  /\ \A name \in Names \cup {RemoteNone} : /\ [kind |-> "register", name |-> Shown(name)] \in Messages
                                           /\ [kind |-> "refresh", name |-> Shown(name)] \in Messages
BY DEF Messages, Shown

(* A step of the tasks of one socket. *)
SocketStep(s) ==
  Open(s) \/ HangUp(s) \/ Message(s) \/ Recheck(s) \/ ReaderStep(s) \/ WriterStep(s)
CallStep(s) ==
  \/ UNCHANGED call
  \/ \E t \in {Reader(s), Writer(s)} : Forget(t)
  \/ \E kind \in {"open", "snapshot", "act", "disconnect"} : Ask(Reader(s), [kind |-> kind])
  \/ Ask(Reader(s), [kind |-> "register", name |-> Shown(device)])
  \/ Ask(Writer(s), [kind |-> "snapshot"])
  \/ call' = [call EXCEPT ![Writer(s)] = NoCall,
                          ![Reader(s)] = [NoCall EXCEPT !.st = "send", !.msg = [kind |-> "disconnect"]]]

(* A task of a socket changes its own socket and begins or takes back calls of its own, *)
(* nothing else.                                                                        *)
LEMMA SocketStepFrame ==
  ASSUME NEW s \in Sockets, SocketStep(s)
  PROVE  /\ UNCHANGED <<owner, mail, events, session, rest>>
         /\ \E k : Set(s, k)
         /\ CallStep(s)
BY DEF SocketStep, CallStep, ReaderStep, WriterStep, Elsewhere, Open, HangUp, Message, Recheck, Subscribe, Start, Check,
       Query, Tell, Decide, Find, Registered, Acted, Leave, Finish, Bye, WriteError, WritePublication, PollOn,
       AskProjection, WriteProjection, WriteEvent, EndWriter

(* A step of one socket leaves the types, and the sockets and calls of the others, as *)
(* they are.                                                                          *)
LEMMA SocketStepOthers ==
  ASSUME NEW s \in Sockets, SocketStep(s), RemoteTyped
  PROVE  /\ RemoteTyped'
         /\ \A z \in Sockets \ {s} :
              sock'[z] = sock[z] /\ call'[Reader(z)] = call[Reader(z)] /\ call'[Writer(z)] = call[Writer(z)]
<1>1. /\ UNCHANGED <<rev, clock, latest, conns, mail, device>>
      /\ CallStep(s)
  BY SocketStepFrame DEF owner, rest
<1>2. PICK k : Set(s, k)
  BY SocketStepFrame
<1>3. /\ DOMAIN sock' = Sockets
      /\ \A z \in Sockets \ {s} : sock'[z] = sock[z]
  BY <1>2 DEF Set, RemoteTyped
<1> DEFINE Kept == /\ call' \in [Tasks -> Calls]
                   /\ \A z \in Sockets \ {s} :
                        call'[Reader(z)] = call[Reader(z)] /\ call'[Writer(z)] = call[Writer(z)]
                   /\ \A t \in Tasks : call'[t].st \in {"send", "queued"} => Fitting(t, call'[t].msg)
<1>4. Kept
  <2>0. call \in [Tasks -> Calls] /\ \A t \in Tasks : call[t].st \in {"send", "queued"} => Fitting(t, call[t].msg)
    BY DEF RemoteTyped
  <2>1. CASE UNCHANGED call
    BY <2>0, <2>1
  <2>2. ASSUME NEW t \in {Reader(s), Writer(s)}, Forget(t) PROVE Kept
    BY <2>0, <2>2, TaskNames, NoCallTyped DEF Forget
  <2>3. ASSUME NEW t \in {Reader(s), Writer(s)}, NEW msg \in Messages, Ask(t, msg), Fitting(t, msg)
        PROVE Kept
    <3>1. PICK c \in Calls : c = [NoCall EXCEPT !.st = "send", !.msg = msg] /\ c.msg = msg
      BY Asked
    <3>2. call' = [call EXCEPT ![t] = c]
      BY <2>3, <3>1 DEF Ask
    <3>3. QED
      BY <2>0, <2>3, <3>1, <3>2, TaskNames
  <2>4. ASSUME NEW kind \in {"open", "snapshot", "act", "disconnect"}, Ask(Reader(s), [kind |-> kind])
        PROVE Kept
    BY <2>3, <2>4, MessageKinds, TaskNames DEF Fitting
  <2>5. CASE Ask(Reader(s), [kind |-> "register", name |-> Shown(device)])
    BY <2>3, <2>5, MessageKinds, TaskNames DEF Fitting, RemoteTyped
  <2>6. CASE Ask(Writer(s), [kind |-> "snapshot"])
    BY <2>3, <2>6, MessageKinds, TaskNames DEF Fitting
  <2>7. CASE call' = [call EXCEPT ![Writer(s)] = NoCall,
                          ![Reader(s)] = [NoCall EXCEPT !.st = "send", !.msg = [kind |-> "disconnect"]]]
    <3>1. PICK c \in Calls : /\ c = [NoCall EXCEPT !.st = "send", !.msg = [kind |-> "disconnect"]]
                             /\ c.msg = [kind |-> "disconnect"]
      BY Asked, MessageKinds
    <3>2. call' = [call EXCEPT ![Writer(s)] = NoCall, ![Reader(s)] = c]
      BY <2>7, <3>1
    <3>3. Fitting(Reader(s), c.msg)
      BY <3>1, TaskNames DEF Fitting
    <3>4. QED
      BY <2>0, <3>2, <3>3, TaskNames, NoCallTyped
  <2>8. QED
    BY <1>1, <2>1, <2>2, <2>4, <2>5, <2>6, <2>7 DEF CallStep
<1>5. QED
  BY <1>1, <1>3, <1>4 DEF RemoteTyped, Fitting

-----------------------------------------------------------------------------
(* The socket whose task moves *)
LEMMA WroteFields ==
  ASSUME NEW before, Fields(before), NEW state, NEW full
  PROVE  LET x == Wrote(before, state, full)
         IN  /\ Fields(x)
             /\ x.rev = state.rev /\ x.clock = state.clock /\ x.full = full
             /\ x.leaked => before.leaked \/ (before.told /\ full)
             /\ x.r = before.r /\ x.auth = before.auth /\ x.proj = before.proj /\ x.error = before.error /\ x.w = before.w
             /\ x.seen = before.seen /\ x.shown = before.shown /\ x.held = before.held /\ x.told = before.told
BY DEF Fields, SocketFields, Wrote

(* A step of a socket keeps what is said of that socket: what it shows was allowed when *)
(* it was shown.                                                                        *)
LEMMA OwnSocket ==
  ASSUME NEW s \in Sockets, RemoteTyped, SocketInv(s), SocketStep(s)
  PROVE  SocketInv(s)'
<1> DEFINE k == sock[s]
           c == call[Reader(s)]
           d == call[Writer(s)]
<1>1. /\ UNCHANGED <<rev, clock, latest, conns>>
      /\ {rev, clock, latest.n, latest.rev, latest.clock} \subseteq Nat
      /\ latest.rev <= rev /\ latest.clock <= clock
      /\ DOMAIN sock = Sockets /\ call \in [Tasks -> Calls]
      /\ c \in Calls /\ d \in Calls
      /\ Reader(s) \in Tasks /\ Writer(s) \in Tasks /\ Reader(s) # Writer(s)
  BY SocketStepFrame, TaskNames DEF owner, RemoteTyped
<1>2. Fields(k) /\ Current(k, c, d) /\ Downgraded(k)
  BY DEF SocketInv
<1>3. CASE Open(s)
  BY <1>1, <1>2, <1>3 DEF Open, SocketInv, Fields, SocketFields, Current, Downgraded, Fresh, Set, Ask, Forget, Answered,
     Wrote, NoCall, NoSocket, Calls, Answers, Listening
<1>4. CASE HangUp(s)
  BY <1>1, <1>2, <1>4 DEF HangUp, SocketInv, Fields, SocketFields, Current, Downgraded, Fresh, Set, Ask, Forget, Answered,
     Wrote, NoCall, NoSocket, Calls, Answers, Listening
<1>5. CASE Message(s)
  BY <1>1, <1>2, <1>5 DEF Message, SocketInv, Fields, SocketFields, Current, Downgraded, Fresh, Set, Ask, Forget, Answered,
     Wrote, NoCall, NoSocket, Calls, Answers, Listening
<1>6. CASE Recheck(s)
  BY <1>1, <1>2, <1>6 DEF Recheck, SocketInv, Fields, SocketFields, Current, Downgraded, Fresh, Set, Ask, Forget, Answered,
     Wrote, NoCall, NoSocket, Calls, Answers, Listening
<1>7. CASE Subscribe(s)
  BY <1>1, <1>2, <1>7 DEF Subscribe, SocketInv, Fields, SocketFields, Current, Downgraded, Fresh, Set, Ask, Forget, Answered,
     Wrote, NoCall, NoSocket, Calls, Answers, Listening
<1>8. CASE Start(s)
  <2> DEFINE m == [k EXCEPT !.r = "loop", !.w = "poll", !.next = events, !.proj.auth = k.auth]
             x == Wrote(m, c.answer, k.auth)
  <2>1. k.r = "first" /\ c.st = "done" /\ sock'[s] = x /\ call'[Reader(s)] = NoCall /\ call'[Writer(s)] = d
    BY <1>1, <1>8 DEF Start, Set, Forget, Answered
  <2>2. /\ Fields(m) /\ m.r = "loop" /\ m.w = "poll" /\ m.auth = k.auth /\ m.proj.auth = k.auth /\ m.proj.n = k.proj.n
        /\ m.seen = k.seen /\ m.shown = k.shown /\ m.error = k.error /\ m.told = k.told /\ m.leaked = k.leaked
    BY <1>2 DEF Fields, SocketFields
  <2> HIDE DEF m
  <2>3. /\ Fields(x) /\ x.rev = c.answer.rev /\ x.clock = c.answer.clock /\ x.full = k.auth
        /\ x.leaked => m.leaked \/ (m.told /\ k.auth)
        /\ x.r = "loop" /\ x.auth = k.auth /\ x.proj = m.proj /\ x.error = k.error /\ x.w = "poll"
        /\ x.seen = k.seen /\ x.shown = k.shown /\ x.told = k.told
    BY <2>2, WroteFields
  <2> HIDE DEF x
  <2>4. QED
    BY <1>1, <1>2, <2>1, <2>2, <2>3 DEF SocketInv, Current, Downgraded, Fresh, Calls, Answers
<1>9. CASE Check(s)
  BY <1>1, <1>2, <1>9 DEF Check, SocketInv, Fields, SocketFields, Current, Downgraded, Fresh, Set, Ask, Forget, Answered,
     Wrote, NoCall, NoSocket, Calls, Answers, Listening
<1>10. CASE Query(s)
  <2>1. CASE valid
    BY <1>1, <1>2, <1>10, <2>1 DEF Query, SocketInv, Fields, SocketFields, Current, Downgraded, Fresh, Set
  <2>2. CASE ~valid
    <3> DEFINE x == [k EXCEPT !.r = "tell", !.auth = FALSE, !.proj = [auth |-> FALSE, n |-> @.n + 1]]
    <3>1. sock'[s] = x /\ UNCHANGED call /\ k.r = "query"
      BY <1>1, <1>10, <2>2 DEF Query, Set
    <3>2. /\ Fields(x) /\ x.r = "tell" /\ x.auth = FALSE /\ x.proj.auth = FALSE /\ x.proj.n = k.proj.n + 1
          /\ x.error = k.error /\ x.w = k.w /\ x.seen = k.seen /\ x.shown = k.shown /\ x.held = k.held
          /\ x.told = k.told /\ x.leaked = k.leaked /\ x.rev = k.rev /\ x.clock = k.clock /\ x.full = k.full
      BY <1>2 DEF Fields, SocketFields
    <3> HIDE DEF x
    <3>3. QED
      BY <1>1, <1>2, <3>1, <3>2 DEF SocketInv, Current, Downgraded, Fresh
  <2>3. QED
    BY <2>1, <2>2
<1>11. CASE Tell(s)
  BY <1>1, <1>2, <1>11 DEF Tell, SocketInv, Fields, SocketFields, Current, Downgraded, Fresh, Set, Ask, Forget, Answered,
     Wrote, NoCall, NoSocket, Calls, Answers, Listening
<1>12. CASE Decide(s)
  BY <1>1, <1>2, <1>12 DEF Decide, SocketInv, Fields, SocketFields, Current, Downgraded, Fresh, Set, Ask, Forget, Answered,
     Wrote, NoCall, NoSocket, Calls, Answers, Listening
<1>13. CASE Find(s)
  BY <1>1, <1>2, <1>13 DEF Find, SocketInv, Fields, SocketFields, Current, Downgraded, Fresh, Set, Ask, Forget, Answered,
     Wrote, NoCall, NoSocket, Calls, Answers, Listening
<1>14. CASE Registered(s)
  BY <1>1, <1>2, <1>14 DEF Registered, SocketInv, Fields, SocketFields, Current, Downgraded, Fresh, Set, Ask, Forget, Answered,
     Wrote, NoCall, NoSocket, Calls, Answers, Listening
<1>15. CASE Acted(s)
  BY <1>1, <1>2, <1>15 DEF Acted, SocketInv, Fields, SocketFields, Current, Downgraded, Fresh, Set, Ask, Forget, Answered,
     Wrote, NoCall, NoSocket, Calls, Answers, Listening
<1>16. CASE Leave(s)
  BY <1>1, <1>2, <1>16 DEF Leave, SocketInv, Fields, SocketFields, Current, Downgraded, Fresh, Set, Ask, Forget, Answered,
     Wrote, NoCall, NoSocket, Calls, Answers, Listening
<1>17. CASE Finish(s)
  BY <1>1, <1>2, <1>17 DEF Finish, SocketInv, Fields, SocketFields, Current, Downgraded, Fresh, Set, Ask, Forget, Answered,
     Wrote, NoCall, NoSocket, Calls, Answers, Listening
<1>18. CASE Bye(s)
  BY <1>1, <1>2, <1>18 DEF Bye, SocketInv, Fields, SocketFields, Current, Downgraded, Fresh, Set, Ask, Forget, Answered,
     Wrote, NoCall, NoSocket, Calls, Answers, Listening
<1>19. CASE WriteError(s)
  BY <1>1, <1>2, <1>19 DEF WriteError, SocketInv, Fields, SocketFields, Current, Downgraded, Fresh, Set, Ask, Forget, Answered,
     Wrote, NoCall, NoSocket, Calls, Answers, Listening
<1>20. CASE WritePublication(s)
  <2> DEFINE m == [k EXCEPT !.seen = latest.n]
             x == Wrote(m, latest, k.proj.auth)
  <2>1. k.w = "poll" /\ sock'[s] = x /\ UNCHANGED call
    BY <1>1, <1>20 DEF WritePublication, Set
  <2>2. /\ Fields(m) /\ m.r = k.r /\ m.w = k.w /\ m.auth = k.auth /\ m.proj = k.proj
        /\ m.seen = latest.n /\ m.shown = k.shown /\ m.error = k.error /\ m.told = k.told /\ m.leaked = k.leaked
    BY <1>2 DEF Fields, SocketFields
  <2> HIDE DEF m
  <2>3. /\ Fields(x) /\ x.rev = latest.rev /\ x.clock = latest.clock /\ x.full = k.proj.auth
        /\ x.leaked => m.leaked \/ (m.told /\ k.proj.auth)
        /\ x.r = k.r /\ x.auth = k.auth /\ x.proj = k.proj /\ x.error = k.error /\ x.w = "poll"
        /\ x.seen = latest.n /\ x.shown = k.shown /\ x.told = k.told
    BY <2>1, <2>2, WroteFields
  <2> HIDE DEF x
  <2>4. QED
    BY <1>1, <1>2, <2>1, <2>2, <2>3 DEF SocketInv, Current, Downgraded, Fresh
<1>21. CASE PollOn(s)
  BY <1>1, <1>2, <1>21 DEF PollOn, SocketInv, Fields, SocketFields, Current, Downgraded, Fresh, Set, Ask, Forget, Answered,
     Wrote, NoCall, NoSocket, Calls, Answers, Listening
<1>22. CASE AskProjection(s)
  BY <1>1, <1>2, <1>22 DEF AskProjection, SocketInv, Fields, SocketFields, Current, Downgraded, Fresh, Set, Ask, Forget, Answered,
     Wrote, NoCall, NoSocket, Calls, Answers, Listening
<1>23. CASE WriteProjection(s)
  <2> DEFINE m == [k EXCEPT !.w = "poll"]
             x == Wrote(m, d.answer, k.held)
  <2>1. k.w = "snap" /\ d.st = "done" /\ sock'[s] = x /\ call'[Reader(s)] = c
    BY <1>1, <1>23 DEF WriteProjection, Set, Forget, Answered
  <2>2. /\ Fields(m) /\ m.r = k.r /\ m.w = "poll" /\ m.auth = k.auth /\ m.proj = k.proj
        /\ m.seen = k.seen /\ m.shown = k.shown /\ m.error = k.error /\ m.told = k.told /\ m.leaked = k.leaked
    BY <1>2 DEF Fields, SocketFields
  <2> HIDE DEF m
  <2>3. /\ Fields(x) /\ x.rev = d.answer.rev /\ x.clock = d.answer.clock /\ x.full = k.held
        /\ x.leaked => m.leaked \/ (m.told /\ k.held)
        /\ x.r = k.r /\ x.auth = k.auth /\ x.proj = k.proj /\ x.error = k.error /\ x.w = "poll"
        /\ x.seen = k.seen /\ x.shown = k.shown /\ x.told = k.told
    BY <2>2, WroteFields
  <2> HIDE DEF x
  <2>4. QED
    BY <1>1, <1>2, <2>1, <2>2, <2>3 DEF SocketInv, Current, Downgraded, Fresh, Calls, Answers
<1>24. CASE WriteEvent(s)
  BY <1>1, <1>2, <1>24 DEF WriteEvent, SocketInv, Fields, SocketFields, Current, Downgraded, Fresh, Set, Ask, Forget, Answered,
     Wrote, NoCall, NoSocket, Calls, Answers, Listening
<1>25. CASE EndWriter(s)
  BY <1>1, <1>2, <1>25 DEF EndWriter, SocketInv, Fields, SocketFields, Current, Downgraded, Fresh, Set, Ask, Forget, Answered,
     Wrote, NoCall, NoSocket, Calls, Answers, Listening
<1> QED
  BY <1>3, <1>4, <1>5, <1>6, <1>7, <1>8, <1>9, <1>10, <1>11, <1>12, <1>13, <1>14, <1>15, <1>16, <1>17, <1>18, <1>19, <1>20, <1>21, <1>22, <1>23, <1>24, <1>25 DEF SocketStep, ReaderStep, WriterStep

-----------------------------------------------------------------------------
(* The owner *)
LEMMA EffectMoves ==
  ASSUME NEW s, NEW msg, Effect(s, msg), RemoteTyped, clock' = clock + 1,
         msg.kind \in {"snapshot", "open", "act", "register", "refresh", "disconnect"}
  PROVE  /\ {rev', clock', latest'.n, latest'.rev, latest'.clock} \subseteq Nat
         /\ latest'.rev <= rev' /\ latest'.clock <= clock'
         /\ DOMAIN conns' = Sockets
         /\ latest' = latest \/ latest'.n = latest.n + 1
<1>1. /\ {rev, clock, latest.n, latest.rev, latest.clock} \subseteq Nat
      /\ latest.rev <= rev /\ latest.clock <= clock
      /\ DOMAIN conns = Sockets
  BY DEF RemoteTyped
<1>2. ASSUME NEW r \in {rev, rev + 1}, Published(r)
      PROVE  /\ {rev', clock', latest'.n, latest'.rev, latest'.clock} \subseteq Nat
             /\ latest'.rev <= rev' /\ latest'.clock <= clock'
             /\ latest'.n = latest.n + 1
  BY <1>1, <1>2 DEF Published
<1>3. \/ UNCHANGED <<rev, latest>>
      \/ Published(rev) \/ Published(rev + 1)
  BY DEF Effect, Connected
<1>4. DOMAIN conns' = Sockets
  BY <1>1 DEF Effect, Connected
<1>5. QED
  BY <1>1, <1>2, <1>3, <1>4

(* What a served task is answered, or keeps. *)
LEMMA ServeMoves ==
  ASSUME RemoteTyped, Serve
  PROVE  /\ RemoteTyped'
         /\ latest' = latest \/ latest'.n = latest.n + 1
         /\ \A t \in Tasks : \/ call'[t] = call[t]
                             \/ /\ call[t].st = "queued" /\ call'[t].st = "done" /\ call'[t].msg = call[t].msg
                                /\ call'[t].answer = [rev |-> rev', clock |-> clock']
<1> DEFINE t == Head(mail).task
           a == [rev |-> rev', clock |-> clock']
<1>1. /\ mail # <<>> /\ mail \in Seq([task : Tasks, msg : Messages])
      /\ \A i \in 1 .. Len(mail) : Fitting(mail[i].task, mail[i].msg)
      /\ call \in [Tasks -> Calls]
      /\ \A u \in Tasks : call[u].st \in {"send", "queued"} => Fitting(u, call[u].msg)
  BY DEF RemoteTyped, Serve
<1>2. /\ t \in Tasks /\ Fitting(t, Head(mail).msg)
      /\ mail' \in Seq([task : Tasks, msg : Messages])
      /\ \A i \in 1 .. Len(mail') : i + 1 \in 1 .. Len(mail) /\ mail'[i] = mail[i + 1]
  <2>1. mail' = Tail(mail) /\ Len(mail) \in Nat /\ Len(mail) >= 1 /\ Head(mail) = mail[1]
    BY <1>1, HeadTailProperties, EmptySeq, LenProperties DEF Serve
  <2>2. mail[1] \in [task : Tasks, msg : Messages] /\ Fitting(mail[1].task, mail[1].msg)
    <3>1. 1 \in 1 .. Len(mail)
      BY <2>1
    <3>2. QED
      BY <1>1, <3>1, ElementOfSeq
  <2>3. /\ mail' \in Seq([task : Tasks, msg : Messages]) /\ Len(mail') = Len(mail) - 1
        /\ \A i \in 1 .. Len(mail') : mail'[i] = mail[i + 1]
    BY <1>1, <2>1, HeadTailProperties
  <2>4. \A i \in 1 .. Len(mail') : i + 1 \in 1 .. Len(mail)
    BY <2>1, <2>3
  <2>5. QED
    BY <2>1, <2>2, <2>3, <2>4
<1>3. Head(mail).msg.kind \in {"snapshot", "open", "act", "register", "refresh", "disconnect"}
  BY <1>2, TaskNames DEF Fitting
<1>4. Effect(t[1], Head(mail).msg) /\ clock' = clock + 1 /\ UNCHANGED <<sock, device>>
  BY DEF Serve, rest
<1>5. /\ {rev', clock', latest'.n, latest'.rev, latest'.clock} \subseteq Nat
      /\ latest'.rev <= rev' /\ latest'.clock <= clock'
      /\ DOMAIN conns' = Sockets
      /\ latest' = latest \/ latest'.n = latest.n + 1
  BY <1>3, <1>4, EffectMoves
<1>6. a \in Answers
  BY <1>5 DEF Answers
<1>7. CASE call[t].st # "queued"
  <2>1. call' = call
    BY <1>7 DEF Serve
  <2>2. QED
    BY <1>1, <1>2, <1>4, <1>5, <2>1 DEF RemoteTyped, Fitting
<1>8. CASE call[t].st = "queued"
  <2>1. call' = [call EXCEPT ![t].st = "done", ![t].answer = a]
    BY <1>8 DEF Serve
  <2> HIDE DEF a, t
  <2>2. /\ \A u \in Tasks \ {t} : call'[u] = call[u]
        /\ call'[t] = [call[t] EXCEPT !.st = "done", !.answer = a]
        /\ DOMAIN call' = Tasks /\ call' = [u \in Tasks |-> call'[u]]
    BY <1>1, <1>2, <2>1
  <2>3. call'[t] \in Calls /\ call'[t].st = "done" /\ call'[t].answer = a /\ call'[t].msg = call[t].msg
    <3>1. call[t] \in Calls
      BY <1>1, <1>2
    <3>2. QED
      BY <1>6, <2>2, <3>1 DEF Calls
  <2>4. call' \in [Tasks -> Calls]
    BY <1>1, <2>2, <2>3
  <2>5. \A u \in Tasks : call'[u].st \in {"send", "queued"} => Fitting(u, call'[u].msg)
    BY <1>1, <2>2, <2>3
  <2>6. RemoteTyped'
    BY <1>1, <1>2, <1>4, <1>5, <2>4, <2>5 DEF RemoteTyped, Fitting
  <2>7. QED
    BY <1>5, <1>8, <2>2, <2>3, <2>6 DEF a
<1>9. QED
  BY <1>7, <1>8

(* A task that is not answered, or with a state that is not older than the *)
(* latest publication.                                                     *)
AnswerFresh(t) ==
  call'[t].st = "done" => \/ call[t].st = "done" /\ call'[t].answer = call[t].answer
                          \/ call'[t].answer.rev >= latest'.rev /\ call'[t].answer.clock >= latest'.clock

(* A socket whose tasks do not move. *)
LEMMA OtherSocket ==
  ASSUME NEW s \in Sockets, RemoteTyped, RemoteTyped', SocketInv(s), sock'[s] = sock[s],
         latest' = latest \/ latest'.n = latest.n + 1,
         AnswerFresh(Reader(s)), AnswerFresh(Writer(s))
  PROVE  SocketInv(s)'
<1> DEFINE k == sock[s]
           c == call[Reader(s)]
           d == call[Writer(s)]
<1>1. /\ {latest.n, latest'.n, latest.rev, latest'.rev, latest.clock, latest'.clock} \subseteq Nat
      /\ c \in Calls /\ d \in Calls /\ c' \in Calls /\ d' \in Calls
  BY TaskNames DEF RemoteTyped
<1>2. Fields(k) /\ Current(k, c, d) /\ Downgraded(k)
  BY DEF SocketInv
<1>3. /\ k' = k
      /\ c'.st = "done" => \/ c.st = "done" /\ c'.answer = c.answer
                           \/ c'.answer.rev >= latest'.rev /\ c'.answer.clock >= latest'.clock
      /\ d'.st = "done" => \/ d.st = "done" /\ d'.answer = d.answer
                           \/ d'.answer.rev >= latest'.rev /\ d'.answer.clock >= latest'.clock
  BY DEF AnswerFresh
<1> HIDE DEF k, c, d
<1>4. Fields(k) /\ Downgraded(k)
  BY <1>2
<1>5. Current(k, c, d)'
  BY <1>1, <1>2, <1>3 DEF Current, Fresh
<1>6. QED
  BY <1>3, <1>4, <1>5 DEF SocketInv, k, c, d, Fields, Downgraded

(* A message that is posted moves from its call to the mailbox. *)
LEMMA PostMoves ==
  ASSUME NEW t \in Tasks, RemoteTyped, Post(t)
  PROVE  /\ RemoteTyped' /\ UNCHANGED <<sock, latest, conns>>
         /\ \A u \in Tasks \ {t} : call'[u] = call[u]
         /\ call[t].st = "send" /\ call'[t].st = "queued" /\ call'[t].msg = call[t].msg
         /\ mail' = Append(mail, [task |-> t, msg |-> call[t].msg])
<1>1. /\ mail \in Seq([task : Tasks, msg : Messages])
      /\ \A i \in 1 .. Len(mail) : Fitting(mail[i].task, mail[i].msg)
      /\ call \in [Tasks -> Calls]
      /\ \A u \in Tasks : call[u].st \in {"send", "queued"} => Fitting(u, call[u].msg)
      /\ call[t].st = "send" /\ call' = [call EXCEPT ![t].st = "queued"]
      /\ mail' = Append(mail, [task |-> t, msg |-> call[t].msg])
      /\ UNCHANGED <<rev, clock, latest, conns, sock, device>>
  BY DEF RemoteTyped, Post, owner, rest
<1>2. [task |-> t, msg |-> call[t].msg] \in [task : Tasks, msg : Messages]
  BY <1>1 DEF Calls
<1> DEFINE e == [task |-> t, msg |-> call[t].msg]
<1>3. e.task = t /\ e.msg = call[t].msg
  OBVIOUS
<1> HIDE DEF e
<1>4. /\ mail' \in Seq([task : Tasks, msg : Messages]) /\ Len(mail') = Len(mail) + 1
      /\ mail'[Len(mail) + 1] = e /\ \A i \in 1 .. Len(mail) : mail'[i] = mail[i]
  BY <1>1, <1>2, AppendProperties DEF e
<1>5. \A i \in 1 .. Len(mail') : Fitting(mail'[i].task, mail'[i].msg)
  <2> SUFFICES ASSUME NEW i \in 1 .. Len(mail') PROVE Fitting(mail'[i].task, mail'[i].msg)
    OBVIOUS
  <2>1. Len(mail) \in Nat /\ (i \in 1 .. Len(mail) \/ i = Len(mail) + 1)
    BY <1>1, <1>4
  <2>2. QED
    BY <1>1, <1>3, <1>4, <2>1
<1>6. /\ call' \in [Tasks -> Calls]
      /\ \A u \in Tasks \ {t} : call'[u] = call[u]
      /\ call'[t].st = "queued" /\ call'[t].msg = call[t].msg
  BY <1>1 DEF Calls
<1>7. \A u \in Tasks : call'[u].st \in {"send", "queued"} => Fitting(u, call'[u].msg)
  BY <1>1, <1>6
<1>8. QED
  BY <1>1, <1>4, <1>5, <1>6, <1>7 DEF RemoteTyped, Fitting, e

(* A REST handler touches no socket. *)
LEMMA RestMoves ==
  ASSUME NEW h \in Handlers, RemoteTyped, Save(h) \/ Saved(h)
  PROVE  /\ RemoteTyped' /\ UNCHANGED <<sock, latest, mail, conns>>
         /\ \A u \in Tasks \ {Rest(h)} : call'[u] = call[u]
<1>1. /\ call \in [Tasks -> Calls]
      /\ \A u \in Tasks : call[u].st \in {"send", "queued"} => Fitting(u, call[u].msg)
      /\ UNCHANGED <<rev, clock, latest, conns, mail, sock>>
      /\ Rest(h) \in Tasks /\ Rest(h)[2] = "rest"
  BY TaskNames DEF RemoteTyped, Save, Saved, owner
<1>2. CASE Save(h)
  <2>1. PICK name \in Names \cup {RemoteNone} :
          device' = name /\ Ask(Rest(h), [kind |-> "refresh", name |-> Shown(name)])
    BY <1>2 DEF Save
  <2>2. PICK msg \in Messages : msg = [kind |-> "refresh", name |-> Shown(name)]
    BY MessageKinds
  <2>3. PICK c \in Calls : c = [NoCall EXCEPT !.st = "send", !.msg = msg] /\ c.msg = msg
    BY Asked
  <2>4. call' = [call EXCEPT ![Rest(h)] = c]
    BY <2>1, <2>2, <2>3 DEF Ask
  <2>5. Fitting(Rest(h), c.msg)
    BY <1>1, <2>2, <2>3 DEF Fitting
  <2>6. /\ call' \in [Tasks -> Calls] /\ \A u \in Tasks \ {Rest(h)} : call'[u] = call[u]
        /\ \A u \in Tasks : call'[u].st \in {"send", "queued"} => Fitting(u, call'[u].msg)
    BY <1>1, <2>4, <2>5
  <2>7. QED
    BY <1>1, <2>1, <2>6 DEF RemoteTyped, Fitting
<1>3. CASE Saved(h)
  <2>1. call' = [call EXCEPT ![Rest(h)] = NoCall] /\ UNCHANGED device
    BY <1>3 DEF Saved, Forget
  <2>2. /\ call' \in [Tasks -> Calls] /\ \A u \in Tasks \ {Rest(h)} : call'[u] = call[u]
        /\ \A u \in Tasks : call'[u].st \in {"send", "queued"} => Fitting(u, call'[u].msg)
    BY <1>1, <2>1, NoCallTyped
  <2>3. QED
    BY <1>1, <2>1, <2>2 DEF RemoteTyped, Fitting
<1>4. QED
  BY <1>2, <1>3

-----------------------------------------------------------------------------
(* The first state has no open socket. *)
LEMMA RemoteInitInv == Init => RemoteIInv
<1> SUFFICES ASSUME Init PROVE RemoteIInv
  OBVIOUS
<1>1. RemoteTyped
  BY NoCallTyped, EmptySeq DEF Init, RemoteTyped
<1>2. ASSUME NEW s \in Sockets PROVE SocketInv(s)
  <2>1. sock[s] = NoSocket /\ call[Reader(s)] = NoCall /\ call[Writer(s)] = NoCall /\ latest = [n |-> 0, rev |-> 0, clock |-> 0]
    BY TaskNames DEF Init
  <2>2. QED
    BY <2>1, NoCallTyped DEF SocketInv, Fields, SocketFields, Current, Downgraded, Fresh, NoSocket
<1>3. QED
  BY <1>1, <1>2 DEF RemoteIInv

(* Every step of a socket, of the owner, of a handler and of the session keeps the *)
(* invariant.                                                                      *)
LEMMA RemoteNextInv == RemoteIInv /\ [Next]_vars => RemoteIInv'
<1> SUFFICES ASSUME RemoteIInv, [Next]_vars PROVE RemoteIInv'
  OBVIOUS
<1>1. RemoteTyped /\ \A s \in Sockets : SocketInv(s)
  BY DEF RemoteIInv
<1>2. ASSUME NEW s \in Sockets, SocketStep(s) PROVE RemoteIInv'
  <2>1. /\ RemoteTyped' /\ UNCHANGED latest
        /\ \A z \in Sockets \ {s} :
             sock'[z] = sock[z] /\ call'[Reader(z)] = call[Reader(z)] /\ call'[Writer(z)] = call[Writer(z)]
    BY <1>1, <1>2, SocketStepOthers, SocketStepFrame DEF owner
  <2>2. SocketInv(s)'
    BY <1>1, <1>2, OwnSocket
  <2>3. ASSUME NEW z \in Sockets \ {s} PROVE SocketInv(z)'
    <3>1. AnswerFresh(Reader(z)) /\ AnswerFresh(Writer(z))
      BY <2>1 DEF AnswerFresh
    <3>2. QED
      BY <1>1, <2>1, <3>1, OtherSocket
  <2>4. QED
    BY <2>1, <2>2, <2>3 DEF RemoteIInv
<1>3. ASSUME NEW t \in Tasks, Post(t) PROVE RemoteIInv'
  <2>1. /\ RemoteTyped' /\ UNCHANGED <<sock, latest>>
        /\ \A u \in Tasks : call'[u].st = "done" => call[u].st = "done" /\ call'[u].answer = call[u].answer
    BY <1>1, <1>3, PostMoves
  <2>2. ASSUME NEW s \in Sockets PROVE SocketInv(s)'
    <3>1. AnswerFresh(Reader(s)) /\ AnswerFresh(Writer(s))
      BY <2>1, TaskNames DEF AnswerFresh
    <3>2. QED
      BY <1>1, <2>1, <3>1, OtherSocket
  <2>3. QED
    BY <2>1, <2>2 DEF RemoteIInv
<1>4. ASSUME NEW h \in Handlers, Save(h) \/ Saved(h) PROVE RemoteIInv'
  <2>1. /\ RemoteTyped' /\ UNCHANGED <<sock, latest>>
        /\ \A u \in Tasks \ {Rest(h)} : call'[u] = call[u]
    BY <1>1, <1>4, RestMoves
  <2>2. ASSUME NEW s \in Sockets PROVE SocketInv(s)'
    <3>1. AnswerFresh(Reader(s)) /\ AnswerFresh(Writer(s))
      BY <2>1, TaskNames DEF AnswerFresh
    <3>2. QED
      BY <1>1, <2>1, <3>1, OtherSocket
  <2>3. QED
    BY <2>1, <2>2 DEF RemoteIInv
<1>5. CASE Serve
  <2>1. /\ RemoteTyped'
        /\ latest' = latest \/ latest'.n = latest.n + 1
        /\ \A t \in Tasks : \/ call'[t] = call[t]
                            \/ call'[t].answer = [rev |-> rev', clock |-> clock']
    BY <1>1, <1>5, ServeMoves
  <2>2. UNCHANGED sock
    BY <1>5 DEF Serve
  <2>3. {rev', clock', latest'.rev, latest'.clock} \subseteq Nat /\ latest'.rev <= rev' /\ latest'.clock <= clock'
    BY <2>1 DEF RemoteTyped
  <2>4. ASSUME NEW s \in Sockets PROVE SocketInv(s)'
    <3>1. AnswerFresh(Reader(s)) /\ AnswerFresh(Writer(s))
      BY <2>1, <2>2, <2>3, TaskNames DEF AnswerFresh
    <3>2. QED
      BY <1>1, <2>1, <2>2, <2>3, <3>1, OtherSocket
  <2>5. QED
    BY <2>1, <2>4 DEF RemoteIInv
<1>6. CASE Change
  <2>1. /\ RemoteTyped' /\ UNCHANGED <<sock, call>> /\ latest'.n = latest.n + 1
    BY <1>1, <1>6 DEF Change, Published, RemoteTyped, rest, Fitting
  <2>2. ASSUME NEW s \in Sockets PROVE SocketInv(s)'
    <3>1. AnswerFresh(Reader(s)) /\ AnswerFresh(Writer(s))
      BY <2>1, TaskNames DEF AnswerFresh
    <3>2. QED
      BY <1>1, <2>1, <3>1, OtherSocket
  <2>3. QED
    BY <2>1, <2>2 DEF RemoteIInv
<1>7. CASE Emit \/ Revoke \/ UNCHANGED vars
  <2>1. UNCHANGED <<rev, clock, latest, conns, mail, call, sock, device>>
    BY <1>7 DEF Emit, Revoke, vars, owner, rest
  <2>2. RemoteTyped'
    BY <1>1, <2>1 DEF RemoteTyped, Fitting
  <2>3. ASSUME NEW s \in Sockets PROVE SocketInv(s)'
    <3>1. AnswerFresh(Reader(s)) /\ AnswerFresh(Writer(s))
      BY <2>1, <2>2, TaskNames DEF AnswerFresh
    <3>2. QED
      BY <1>1, <2>1, <2>2, <3>1, OtherSocket
  <2>4. QED
    BY <2>2, <2>3 DEF RemoteIInv
<1>8. CASE Tick
  <2>1. /\ UNCHANGED <<rev, clock, latest, conns, mail, call, device>>
        /\ sock' = [s \in Sockets |-> [sock[s] EXCEPT !.age = IF @ > Interval THEN @ ELSE @ + 1]]
    BY <1>8 DEF Tick, owner, rest
  <2>2. RemoteTyped'
    BY <1>1, <2>1 DEF RemoteTyped, Fitting
  <2>3. ASSUME NEW s \in Sockets PROVE SocketInv(s)'
    <3>1. sock'[s] = [sock[s] EXCEPT !.age = IF @ > Interval THEN @ ELSE @ + 1]
      BY <2>1
    <3>2. SocketInv(s)
      BY <1>1
    <3>3. QED
      BY <2>1, <3>1, <3>2 DEF SocketInv, Fields, SocketFields, Current, Downgraded, Fresh
  <2>4. QED
    BY <2>2, <2>3 DEF RemoteIInv
<1>9. QED
  BY <1>2, <1>3, <1>4, <1>5, <1>6, <1>7, <1>8 DEF Next, SocketStep

(* For every number of sockets, handlers and names: a socket with nothing  *)
(* left to write shows the state the owner published last, whole exactly   *)
(* if its projection allows it - no publication falls between the snapshot *)
(* it starts from and its subscription, and none is skipped for another    *)
(* push - and a client that was told its session is gone is never sent the *)
(* operator's state again, however messages, publications, logouts and the *)
(* two tasks of the socket interleave (the reader and the writer of        *)
(* remote.rs).                                                             *)
THEOREM SocketsShowWhatTheyMay == Spec => []ShowsWhatItMay
<1>1. RemoteIInv => ShowsWhatItMay
  <2> SUFFICES ASSUME RemoteIInv, NEW s \in Sockets
               PROVE  /\ ~sock[s].leaked
                      /\ sock[s].w = "poll" /\ sock[s].seen = latest.n /\ sock[s].shown = sock[s].proj.n
                         => sock[s].rev >= latest.rev /\ sock[s].clock >= latest.clock /\ sock[s].full = sock[s].proj.auth
    BY DEF ShowsWhatItMay, UpToDate, GuestOnceTold
  <2>1. Current(sock[s], call[Reader(s)], call[Writer(s)]) /\ Downgraded(sock[s])
    BY DEF RemoteIInv, SocketInv
  <2>2. QED
    BY <2>1 DEF Current, Downgraded, Fresh
<1>2. QED
  BY RemoteInitInv, RemoteNextInv, <1>1, PTL DEF Spec

-----------------------------------------------------------------------------
(* The connections *)
LEMMA OwnLeaving ==
  ASSUME NEW s \in Sockets, RemoteTyped, Fields(sock[s]), Leaving(s), SocketStep(s)
  PROVE  Leaving(s)'
<1> DEFINE k == sock[s]
           c == call[Reader(s)]
<1>1. /\ UNCHANGED <<conns, mail>>
      /\ DOMAIN sock = Sockets /\ call \in [Tasks -> Calls] /\ c \in Calls
      /\ Reader(s) \in Tasks /\ Writer(s) \in Tasks /\ Reader(s) # Writer(s)
  BY SocketStepFrame, TaskNames DEF owner, RemoteTyped
<1>2. DOMAIN k = SocketFields
  BY DEF Fields
<1> DEFINE r == sock'[s].r
           a == call'[Reader(s)]
           Goal == /\ r \in ReaderSteps
                   /\ r \in Waiting <=> a.st # "none"
                   /\ \/ r # "gone" /\ k.r # "gone" /\ (a = c \/ (c.st \in {"none", "done"} /\ a.st # "queued"))
                      \/ r = "gone" /\ k.r = "gone" /\ a = c /\ sock'[s].abandoned = k.abandoned
                      \/ r = "gone" /\ k.r = "bye" /\ (sock'[s].abandoned \/ c.st \in {"queued", "done"})
                   /\ r = "bye" => a.msg.kind = "disconnect"
                   /\ r = "bye" /\ a.st = "done" => conns[s] = RemoteNone
<1>3. /\ k.r \in ReaderSteps
      /\ k.r \in Waiting <=> c.st # "none"
      /\ k.r = "bye" => c.msg.kind = "disconnect"
      /\ k.r = "bye" /\ c.st = "done" => conns[s] = RemoteNone
      /\ c.st = "queued" => InMail(s)
      /\ k.r = "gone" => k.abandoned \/ InMail(s) \/ conns[s] = RemoteNone
  BY DEF Leaving
<1>4. ASSUME Open(s) PROVE Goal
  BY <1>1, <1>2, <1>3, <1>4 DEF Open, SocketFields, ReaderSteps, Waiting, Set, Ask, Forget, Answered, Wrote, NoCall, NoSocket,
     Listening, Calls
<1>5. ASSUME HangUp(s) PROVE Goal
  BY <1>1, <1>2, <1>3, <1>5 DEF HangUp, SocketFields, ReaderSteps, Waiting, Set, Ask, Forget, Answered, Wrote, NoCall, NoSocket,
     Listening, Calls
<1>6. ASSUME Message(s) PROVE Goal
  BY <1>1, <1>2, <1>3, <1>6 DEF Message, SocketFields, ReaderSteps, Waiting, Set, Ask, Forget, Answered, Wrote, NoCall, NoSocket,
     Listening, Calls
<1>7. ASSUME Recheck(s) PROVE Goal
  BY <1>1, <1>2, <1>3, <1>7 DEF Recheck, SocketFields, ReaderSteps, Waiting, Set, Ask, Forget, Answered, Wrote, NoCall, NoSocket,
     Listening, Calls
<1>8. ASSUME Subscribe(s) PROVE Goal
  BY <1>1, <1>2, <1>3, <1>8 DEF Subscribe, SocketFields, ReaderSteps, Waiting, Set, Ask, Forget, Answered, Wrote, NoCall, NoSocket,
     Listening, Calls
<1>9. ASSUME Start(s) PROVE Goal
  BY <1>1, <1>2, <1>3, <1>9 DEF Start, SocketFields, ReaderSteps, Waiting, Set, Ask, Forget, Answered, Wrote, NoCall, NoSocket,
     Listening, Calls
<1>10. ASSUME Check(s) PROVE Goal
  BY <1>1, <1>2, <1>3, <1>10 DEF Check, SocketFields, ReaderSteps, Waiting, Set, Ask, Forget, Answered, Wrote, NoCall, NoSocket,
     Listening, Calls
<1>11. ASSUME Query(s) PROVE Goal
  BY <1>1, <1>2, <1>3, <1>11 DEF Query, SocketFields, ReaderSteps, Waiting, Set, Ask, Forget, Answered, Wrote, NoCall, NoSocket,
     Listening, Calls
<1>12. ASSUME Tell(s) PROVE Goal
  BY <1>1, <1>2, <1>3, <1>12 DEF Tell, SocketFields, ReaderSteps, Waiting, Set, Ask, Forget, Answered, Wrote, NoCall, NoSocket,
     Listening, Calls
<1>13. ASSUME Decide(s) PROVE Goal
  <2>1. c.st = "none"
    BY <1>3, <1>13 DEF Decide, Waiting
  <2> k.r # "gone"
    BY <1>13 DEF Decide
  <2>2. CASE k.doing = "act" /\ k.auth
    <3>1. /\ sock'[s] = [k EXCEPT !.r = "wait"]
          /\ call'[Reader(s)] = [NoCall EXCEPT !.st = "send", !.msg = [kind |-> "act"]]
      BY <1>1, <1>13, <2>2 DEF Decide, Set, Ask
    <3>2. r = "wait" /\ a.st = "send"
      BY <1>2, <3>1 DEF SocketFields, NoCall
    <3>3. QED
      BY <2>1, <3>2 DEF ReaderSteps, Waiting
  <2>3. CASE ~(k.doing = "act" /\ k.auth)
    <3>1. sock'[s] = [k EXCEPT !.r = IF k.doing = "register" THEN "find" ELSE "loop"] /\ a = c
      BY <1>1, <1>13, <2>3 DEF Decide, Set
    <3>2. r \in {"find", "loop"}
      BY <1>2, <3>1 DEF SocketFields
    <3>3. QED
      BY <2>1, <3>1, <3>2 DEF ReaderSteps, Waiting
  <2>4. QED
    BY <2>2, <2>3
<1>14. ASSUME Find(s) PROVE Goal
  BY <1>1, <1>2, <1>3, <1>14 DEF Find, SocketFields, ReaderSteps, Waiting, Set, Ask, Forget, Answered, Wrote, NoCall, NoSocket,
     Listening, Calls
<1>15. ASSUME Registered(s) PROVE Goal
  BY <1>1, <1>2, <1>3, <1>15 DEF Registered, SocketFields, ReaderSteps, Waiting, Set, Ask, Forget, Answered, Wrote, NoCall, NoSocket,
     Listening, Calls
<1>16. ASSUME Acted(s) PROVE Goal
  BY <1>1, <1>2, <1>3, <1>16 DEF Acted, SocketFields, ReaderSteps, Waiting, Set, Ask, Forget, Answered, Wrote, NoCall, NoSocket,
     Listening, Calls
<1>17. ASSUME Leave(s) PROVE Goal
  BY <1>1, <1>2, <1>3, <1>17 DEF Leave, SocketFields, ReaderSteps, Waiting, Set, Ask, Forget, Answered, Wrote, NoCall, NoSocket,
     Listening, Calls
<1>18. ASSUME Finish(s) PROVE Goal
  BY <1>1, <1>2, <1>3, <1>18 DEF Finish, SocketFields, ReaderSteps, Waiting, Set, Ask, Forget, Answered, Wrote, NoCall, NoSocket,
     Listening, Calls
<1>19. ASSUME Bye(s) PROVE Goal
  BY <1>1, <1>2, <1>3, <1>19 DEF Bye, SocketFields, ReaderSteps, Waiting, Set, Ask, Forget, Answered, Wrote, NoCall, NoSocket,
     Listening, Calls
<1>20. ASSUME WriteError(s) PROVE Goal
  BY <1>1, <1>2, <1>3, <1>20 DEF WriteError, SocketFields, ReaderSteps, Waiting, Set, Ask, Forget, Answered, Wrote, NoCall, NoSocket,
     Listening, Calls
<1>21. ASSUME WritePublication(s) PROVE Goal
  BY <1>1, <1>2, <1>3, <1>21 DEF WritePublication, SocketFields, ReaderSteps, Waiting, Set, Ask, Forget, Answered, Wrote, NoCall, NoSocket,
     Listening, Calls
<1>22. ASSUME PollOn(s) PROVE Goal
  BY <1>1, <1>2, <1>3, <1>22 DEF PollOn, SocketFields, ReaderSteps, Waiting, Set, Ask, Forget, Answered, Wrote, NoCall, NoSocket,
     Listening, Calls
<1>23. ASSUME AskProjection(s) PROVE Goal
  BY <1>1, <1>2, <1>3, <1>23 DEF AskProjection, SocketFields, ReaderSteps, Waiting, Set, Ask, Forget, Answered, Wrote, NoCall, NoSocket,
     Listening, Calls
<1>24. ASSUME WriteProjection(s) PROVE Goal
  BY <1>1, <1>2, <1>3, <1>24 DEF WriteProjection, SocketFields, ReaderSteps, Waiting, Set, Ask, Forget, Answered, Wrote, NoCall, NoSocket,
     Listening, Calls
<1>25. ASSUME WriteEvent(s) PROVE Goal
  BY <1>1, <1>2, <1>3, <1>25 DEF WriteEvent, SocketFields, ReaderSteps, Waiting, Set, Ask, Forget, Answered, Wrote, NoCall, NoSocket,
     Listening, Calls
<1>26. ASSUME EndWriter(s) PROVE Goal
  BY <1>1, <1>2, <1>3, <1>26 DEF EndWriter, SocketFields, ReaderSteps, Waiting, Set, Ask, Forget, Answered, Wrote, NoCall, NoSocket,
     Listening, Calls
<1>27. Goal
  BY <1>4, <1>5, <1>6, <1>7, <1>8, <1>9, <1>10, <1>11, <1>12, <1>13, <1>14, <1>15, <1>16, <1>17, <1>18, <1>19, <1>20, <1>21, <1>22, <1>23, <1>24, <1>25, <1>26 DEF SocketStep, ReaderStep, WriterStep
<1>28. /\ \A j \in 1 .. Len(mail) : mail[j].task = Reader(s) =>
            IF k.r = "gone" THEN mail[j].msg.kind = "disconnect" ELSE c.st = "queued" /\ mail[j].msg = c.msg
       /\ \A j, m \in 1 .. Len(mail) : mail[j].task = Reader(s) /\ mail[m].task = Reader(s) => j = m
  BY DEF Leaving
<1>29. InMail(s)' <=> InMail(s)
  BY <1>1 DEF InMail
<1>30. \A j \in 1 .. Len(mail) : mail[j].task = Reader(s) =>
         IF r = "gone" THEN mail[j].msg.kind = "disconnect" ELSE a.st = "queued" /\ mail[j].msg = a.msg
  BY <1>3, <1>27, <1>28
<1>31. /\ a.st = "queued" => InMail(s)
       /\ r = "gone" => sock'[s].abandoned \/ InMail(s) \/ conns[s] = RemoteNone
  BY <1>3, <1>27 DEF Waiting
<1>32. QED
  BY <1>1, <1>27, <1>28, <1>29, <1>30, <1>31 DEF Leaving

(* A socket whose reader does not move and is not served. *)
LEMMA OtherLeaving ==
  ASSUME NEW s \in Sockets, Leaving(s), sock'[s].r = sock[s].r, sock'[s].abandoned = sock[s].abandoned,
         call'[Reader(s)] = call[Reader(s)], UNCHANGED mail, conns'[s] = conns[s]
  PROVE  Leaving(s)'
BY DEF Leaving, InMail

(* A message in the mailbox of a socket that leaves keeps its place before the *)
(* farewell.                                                                   *)
LEMMA PostLeaving ==
  ASSUME NEW t \in Tasks, NEW s \in Sockets, RemoteTyped, Leaving(s), Post(t)
  PROVE  Leaving(s)'
<1> DEFINE c == call[Reader(s)]
           e == [task |-> t, msg |-> call[t].msg]
<1>1. /\ UNCHANGED <<sock, conns>>
      /\ \A u \in Tasks \ {t} : call'[u] = call[u]
      /\ call[t].st = "send" /\ call'[t].st = "queued" /\ call'[t].msg = call[t].msg
      /\ mail' = Append(mail, e)
      /\ Reader(s) \in Tasks
  BY PostMoves, TaskNames
<1>2. e.task = t /\ e.msg = call[t].msg
  OBVIOUS
<1> HIDE DEF e
<1>3. /\ Len(mail) \in Nat /\ Len(mail') = Len(mail) + 1
      /\ mail'[Len(mail) + 1] = e /\ \A i \in 1 .. Len(mail) : mail'[i] = mail[i]
  BY <1>1, AppendProperties, LenProperties DEF RemoteTyped
<1>4. \A i \in 1 .. Len(mail') : i \in 1 .. Len(mail) \/ i = Len(mail) + 1
  BY <1>3
<1>5. /\ sock[s].r \in ReaderSteps
      /\ sock[s].r \in Waiting <=> c.st # "none"
      /\ sock[s].r = "bye" => c.msg.kind = "disconnect"
      /\ sock[s].r = "bye" /\ c.st = "done" => conns[s] = RemoteNone
      /\ c.st = "queued" => InMail(s)
      /\ sock[s].r = "gone" => sock[s].abandoned \/ InMail(s) \/ conns[s] = RemoteNone
      /\ \A i \in 1 .. Len(mail) : mail[i].task = Reader(s) =>
           IF sock[s].r = "gone" THEN mail[i].msg.kind = "disconnect" ELSE c.st = "queued" /\ mail[i].msg = c.msg
      /\ \A i, k \in 1 .. Len(mail) : mail[i].task = Reader(s) /\ mail[k].task = Reader(s) => i = k
  BY DEF Leaving
<1>51. InMail(s) => InMail(s)'
  BY <1>3, <1>4 DEF InMail
<1>6. CASE t = Reader(s)
  <2>0. sock[s].r # "gone"
    BY <1>1, <1>5, <1>6 DEF Waiting
  <2>1. \A i \in 1 .. Len(mail') : mail'[i].task = Reader(s) => i = Len(mail) + 1
    BY <1>1, <1>3, <1>4, <1>5, <1>6, <2>0
  <2>2. \A i, k \in 1 .. Len(mail') : mail'[i].task = Reader(s) /\ mail'[k].task = Reader(s) => i = k
    BY <2>1
  <2>3. InMail(s)'
    BY <1>2, <1>3, <1>6 DEF InMail
  <2>4. \A i \in 1 .. Len(mail') : mail'[i].task = Reader(s) =>
          call'[Reader(s)].st = "queued" /\ mail'[i].msg = call'[Reader(s)].msg
    BY <1>1, <1>2, <1>3, <1>6, <2>1
  <2>5. QED
    BY <1>1, <1>5, <1>6, <2>0, <2>2, <2>3, <2>4 DEF Leaving
<1>7. CASE t # Reader(s)
  <2>1. \A i \in 1 .. Len(mail') : mail'[i].task = Reader(s) => i \in 1 .. Len(mail) /\ mail'[i] = mail[i]
    BY <1>2, <1>3, <1>4, <1>7
  <2>2. call'[Reader(s)] = c
    BY <1>1, <1>7
  <2>3. \A i, k \in 1 .. Len(mail') : mail'[i].task = Reader(s) /\ mail'[k].task = Reader(s) => i = k
    BY <1>5, <2>1
  <2>4. QED
    BY <1>1, <1>5, <1>51, <2>1, <2>2, <2>3 DEF Leaving
<1>8. QED
  BY <1>6, <1>7

(* What a message does to the connection of another socket. *)
LEMMA EffectElsewhere ==
  ASSUME NEW t \in Tasks, NEW msg, NEW s \in Sockets, DOMAIN conns = Sockets, Effect(t[1], msg),
         Fitting(t, msg), t # Reader(s), conns[s] = RemoteNone
  PROVE  conns'[s] = RemoteNone
<1>1. ASSUME NEW h \in Handlers, t = Rest(h) PROVE conns'[s] = RemoteNone
  <2>1. msg.kind = "refresh"
    BY <1>1, TaskNames DEF Fitting
  <2>2. conns' = [z \in Sockets |-> IF conns[z] \in {RemoteNone, "open"} THEN conns[z] ELSE msg.name]
    BY <2>1 DEF Effect
  <2>3. QED
    BY <2>2
<1>2. ASSUME NEW z \in Sockets, t = Writer(z) PROVE conns'[s] = RemoteNone
  <2>1. msg.kind = "snapshot"
    BY <1>2, TaskNames DEF Fitting
  <2>2. QED
    BY <2>1 DEF Effect
<1>3. ASSUME NEW z \in Sockets, t = Reader(z) PROVE conns'[s] = RemoteNone
  <2>1. t[1] = z /\ z # s /\ msg.kind \in {"open", "snapshot", "act", "register", "disconnect"}
    BY <1>3, TaskNames DEF Fitting
  <2>2. QED
    BY <2>1 DEF Effect, Connected
<1>4. QED
  BY <1>1, <1>2, <1>3, TaskNames

(* The owner serves the farewell of a socket after everything the socket sent before. *)
LEMMA ServeLeaving ==
  ASSUME NEW s \in Sockets, RemoteTyped, Leaving(s), Serve
  PROVE  Leaving(s)'
<1> DEFINE c == call[Reader(s)]
           t == Head(mail).task
<1>1. /\ mail # <<>> /\ mail \in Seq([task : Tasks, msg : Messages])
      /\ \A i \in 1 .. Len(mail) : Fitting(mail[i].task, mail[i].msg)
      /\ DOMAIN conns = Sockets /\ Reader(s) \in Tasks /\ call \in [Tasks -> Calls]
  BY TaskNames DEF RemoteTyped, Serve
<1>2. /\ mail' = Tail(mail) /\ Len(mail) \in Nat /\ Len(mail) >= 1 /\ Head(mail) = mail[1]
      /\ UNCHANGED sock /\ Effect(t[1], Head(mail).msg)
      /\ call' = IF call[t].st # "queued" THEN call
                 ELSE [call EXCEPT ![t].st = "done", ![t].answer = [rev |-> rev', clock |-> clock']]
  BY <1>1, HeadTailProperties, EmptySeq, LenProperties DEF Serve
<1>3. 1 \in 1 .. Len(mail)
  BY <1>2
<1>4. t \in Tasks /\ Fitting(t, Head(mail).msg)
  <2>1. mail[1] \in [task : Tasks, msg : Messages] /\ Fitting(mail[1].task, mail[1].msg)
    BY <1>1, <1>3, ElementOfSeq
  <2>2. QED
    BY <1>2, <2>1
<1>5. /\ Len(mail') = Len(mail) - 1
      /\ \A i \in 1 .. Len(mail') : mail'[i] = mail[i + 1]
  BY <1>1, <1>2, HeadTailProperties
<1>6. \A i \in 1 .. Len(mail') : i + 1 \in 1 .. Len(mail) /\ i + 1 # 1
  BY <1>2, <1>5
<1>7. /\ sock[s].r \in ReaderSteps
      /\ sock[s].r \in Waiting <=> c.st # "none"
      /\ sock[s].r = "bye" => c.msg.kind = "disconnect"
      /\ sock[s].r = "bye" /\ c.st = "done" => conns[s] = RemoteNone
      /\ c.st = "queued" => InMail(s)
      /\ sock[s].r = "gone" => sock[s].abandoned \/ InMail(s) \/ conns[s] = RemoteNone
      /\ \A i \in 1 .. Len(mail) : mail[i].task = Reader(s) =>
           IF sock[s].r = "gone" THEN mail[i].msg.kind = "disconnect" ELSE c.st = "queued" /\ mail[i].msg = c.msg
      /\ \A i, k \in 1 .. Len(mail) : mail[i].task = Reader(s) /\ mail[k].task = Reader(s) => i = k
  BY DEF Leaving
<1>8. \A i, k \in 1 .. Len(mail') : mail'[i].task = Reader(s) /\ mail'[k].task = Reader(s) => i = k
  <2> SUFFICES ASSUME NEW i \in 1 .. Len(mail'), NEW k \in 1 .. Len(mail'),
                      mail'[i].task = Reader(s), mail'[k].task = Reader(s)
               PROVE  i = k
    OBVIOUS
  <2>1. i + 1 = k + 1
    BY <1>5, <1>6, <1>7
  <2>2. QED
    BY <2>1
<1>81. \A i \in 1 .. Len(mail) : i # 1 => i - 1 \in 1 .. Len(mail') /\ mail'[i - 1] = mail[i]
  BY <1>2, <1>5
<1>9. CASE t = Reader(s)
  <2>1. \A i \in 1 .. Len(mail') : mail'[i].task # Reader(s)
    BY <1>2, <1>3, <1>5, <1>6, <1>7, <1>9
  <2>2. CASE sock[s].r = "gone"
    <3>1. c.st = "none" /\ Head(mail).msg.kind = "disconnect" /\ t[1] = s
      BY <1>2, <1>3, <1>7, <1>9, <2>2, TaskNames DEF Waiting
    <3>2. call' = call
      BY <1>2, <1>9, <3>1
    <3>3. conns'[s] = RemoteNone
      BY <1>1, <1>2, <3>1 DEF Effect, Connected
    <3>4. QED
      BY <1>2, <1>7, <1>8, <2>1, <2>2, <3>1, <3>2, <3>3 DEF Leaving
  <2>3. CASE sock[s].r # "gone"
    <3>1. c.st = "queued" /\ Head(mail).msg = c.msg
      BY <1>2, <1>3, <1>7, <1>9, <2>3
    <3>2. call' = [call EXCEPT ![t].st = "done", ![t].answer = [rev |-> rev', clock |-> clock']]
      BY <1>2, <1>9, <3>1
    <3>3. call'[Reader(s)].st = "done" /\ call'[Reader(s)].msg = c.msg
      <4>1. c \in Calls
        BY <1>1
      <4>2. call'[Reader(s)] = [c EXCEPT !.st = "done", !.answer = [rev |-> rev', clock |-> clock']]
        BY <1>1, <1>9, <3>2
      <4>3. QED
        BY <4>1, <4>2 DEF Calls
    <3>4. ASSUME sock[s].r = "bye" PROVE conns'[s] = RemoteNone
      <4>1. Head(mail).msg.kind = "disconnect" /\ t[1] = s
        BY <1>7, <1>9, <3>1, <3>4, TaskNames
      <4>2. QED
        BY <1>1, <1>2, <4>1 DEF Effect, Connected
    <3>5. QED
      BY <1>2, <1>7, <1>8, <2>1, <2>3, <3>1, <3>3, <3>4 DEF Leaving
  <2>4. QED
    BY <2>2, <2>3
<1>10. CASE t # Reader(s)
  <2>1. call'[Reader(s)] = c
    BY <1>1, <1>2, <1>4, <1>10
  <2>2. conns[s] = RemoteNone => conns'[s] = RemoteNone
    BY <1>1, <1>2, <1>4, <1>10, EffectElsewhere
  <2>3. \A i \in 1 .. Len(mail') : mail'[i].task = Reader(s) =>
          IF sock[s].r = "gone" THEN mail'[i].msg.kind = "disconnect" ELSE c.st = "queued" /\ mail'[i].msg = c.msg
    BY <1>5, <1>6, <1>7
  <2>4. InMail(s) => InMail(s)'
    BY <1>2, <1>10, <1>81 DEF InMail
  <2>5. QED
    BY <1>2, <1>7, <1>8, <2>1, <2>2, <2>3, <2>4 DEF Leaving
<1>11. QED
  BY <1>9, <1>10

(* Every step keeps the order of what a leaving socket sent. *)
LEMMA LeavingNext ==
  ASSUME RemoteIInv, LeavingInv, [Next]_vars
  PROVE  LeavingInv'
<1> SUFFICES ASSUME NEW s \in Sockets PROVE Leaving(s)'
  BY DEF LeavingInv
<1>1. RemoteTyped /\ Leaving(s) /\ Fields(sock[s])
  BY DEF RemoteIInv, LeavingInv, SocketInv
<1>2. ASSUME NEW z \in Sockets, SocketStep(z) PROVE Leaving(s)'
  <2>1. CASE z = s
    BY <1>1, <1>2, <2>1, OwnLeaving
  <2>2. CASE z # s
    <3>1. sock'[s] = sock[s] /\ call'[Reader(s)] = call[Reader(s)] /\ UNCHANGED <<mail, conns>>
      BY <1>1, <1>2, <2>2, SocketStepOthers, SocketStepFrame DEF owner
    <3>2. QED
      BY <1>1, <3>1, OtherLeaving
  <2>3. QED
    BY <2>1, <2>2
<1>3. ASSUME NEW t \in Tasks, Post(t) PROVE Leaving(s)'
  BY <1>1, <1>3, PostLeaving
<1>4. ASSUME NEW h \in Handlers, Save(h) \/ Saved(h) PROVE Leaving(s)'
  <2>1. call'[Reader(s)] = call[Reader(s)] /\ UNCHANGED <<mail, conns, sock>>
    BY <1>1, <1>4, RestMoves, TaskNames
  <2>2. QED
    BY <1>1, <2>1, OtherLeaving
<1>5. CASE Serve
  BY <1>1, <1>5, ServeLeaving
<1>6. CASE Change \/ Emit \/ Revoke \/ UNCHANGED vars
  <2>1. UNCHANGED <<mail, conns, sock, call>>
    BY <1>6 DEF Change, Emit, Revoke, vars, owner
  <2>2. QED
    BY <1>1, <2>1, OtherLeaving
<1>7. CASE Tick
  <2>1. UNCHANGED <<mail, conns, call>> /\ sock'[s].r = sock[s].r /\ sock'[s].abandoned = sock[s].abandoned
    BY <1>1, <1>7 DEF Tick, owner, Fields, SocketFields
  <2>2. QED
    BY <1>1, <2>1, OtherLeaving
<1>8. QED
  BY <1>2, <1>3, <1>4, <1>5, <1>6, <1>7 DEF Next, SocketStep

(* For every number of sockets and handlers and every mailbox: the owner   *)
(* keeps no connection of a socket that has ended and has no message left  *)
(* in the mailbox, because the farewell is the last message of a socket    *)
(* (the end of websocket_session in websocket.rs). Excepted is the socket  *)
(* whose farewell found no place in the mailbox for DISCONNECT_TIMEOUT; a  *)
(* farewell that was in the mailbox when the time passed is still served.  *)
THEOREM EndedSocketsAreRemoved == Spec => []GoneIsRemoved
<1>1. Init => LeavingInv
  BY TaskNames DEF Init, LeavingInv, Leaving, InMail, NoSocket, NoCall, ReaderSteps, Waiting
<1>2. RemoteIInv /\ LeavingInv /\ [Next]_vars => LeavingInv'
  BY LeavingNext
<1>3. LeavingInv => GoneIsRemoved
  BY DEF LeavingInv, Leaving, InMail, GoneIsRemoved
<1>4. QED
  BY RemoteInitInv, RemoteNextInv, <1>1, <1>2, <1>3, PTL DEF Spec

-----------------------------------------------------------------------------
(***************************************************************************)
(* The appliance: the server's states on a wire, the reconciler, the       *)
(* commands of its two tasks and mpv. OutputIsRight speaks of the moments  *)
(* without a command under way; inductive is what mpv will be once the     *)
(* commands of the one task that has some are run (WillFollow with After), *)
(* that only one task has some (OneAtATime) unless they raced, and that a  *)
(* task with commands holds the lock (Holding).                            *)
(***************************************************************************)

Players == [track : HeadlessTracks \cup {HeadlessNone}, epoch : Nat, paused : BOOLEAN]
Reconcilers ==
  [known : BOOLEAN, state : PlayerState, loaded : HeadlessTracks \cup {HeadlessNone}, lastEpoch : Nat,
   hasEpoch : BOOLEAN, gate : BOOLEAN, localOn : BOOLEAN]

(* A track is loaded at some epoch. *)
Marked(r) == r.loaded # HeadlessNone => r.hasEpoch

HeadlessTyped ==
  /\ headlessServer \in PlayerState /\ wire \in Seq(PlayerState)
  /\ rec \in Reconcilers /\ Marked(rec) /\ mpv \in Players
  /\ raced \in BOOLEAN
  /\ headlessBatch \in [HeadlessTasks -> Seq(Command)]
  /\ \A t \in HeadlessTasks : Len(headlessBatch[t]) <= 2

(* What mpv will be once it has run the commands b. *)
After(m, b) ==
  IF b = <<>> THEN m
  ELSE IF Tail(b) = <<>> THEN Executed(m, Head(b)) ELSE Executed(Executed(m, Head(b)), Head(Tail(b)))

(* The player m follows the reconciler r. *)
Follows(r, m) ==
  /\ m.track = r.loaded
  /\ r.loaded # HeadlessNone => r.hasEpoch /\ m.epoch = r.lastEpoch
  /\ HeadlessAudible(r) => m.track = r.state.track /\ m.epoch = r.state.epoch /\ ~m.paused
  /\ r.known /\ ~HeadlessAudible(r) => m.track = HeadlessNone \/ m.paused

Holding == \A t \in HeadlessTasks : holder = t => headlessBatch[t] # <<>>
OneAtATime == headlessBatch["websocket"] = <<>> \/ headlessBatch["control"] = <<>>
WillFollow == \A t \in HeadlessTasks : (\A u \in HeadlessTasks \ {t} : headlessBatch[u] = <<>>)
                                         => Follows(rec, After(mpv, headlessBatch[t]))

HeadlessIInv ==
  /\ HeadlessTyped /\ Holding
  /\ ~raced => OneAtATime /\ WillFollow

-----------------------------------------------------------------------------
(* Commands *)
LEMMA ExecutedTyped ==
  ASSUME NEW m \in Players, NEW c \in Command
  PROVE  Executed(m, c) \in Players
BY DEF Players, Command, Executed

(* A batch of one command does what the command does. *)
LEMMA OneCommand ==
  ASSUME NEW m, NEW c \in Command
  PROVE  <<c>> \in Seq(Command) /\ Len(<<c>>) = 1 /\ <<c>> # <<>> /\ After(m, <<c>>) = Executed(m, c)
BY DEF After

(* A batch of two commands does the one and then the other. *)
LEMMA TwoCommands ==
  ASSUME NEW m, NEW c \in Command, NEW d \in Command
  PROVE  /\ <<c, d>> \in Seq(Command) /\ Len(<<c, d>>) = 2 /\ <<c, d>> # <<>>
         /\ After(m, <<c, d>>) = Executed(Executed(m, c), d)
BY DEF After

(* Running one command leaves what the rest will make of the player. *)
LEMMA AfterOne ==
  ASSUME NEW m, NEW b \in Seq(Command), b # <<>>, Len(b) <= 2
  PROVE  /\ Tail(b) \in Seq(Command) /\ Len(Tail(b)) <= 2 /\ Head(b) \in Command
         /\ After(Executed(m, Head(b)), Tail(b)) = After(m, b)
<1>1. /\ Tail(b) \in Seq(Command) /\ Head(b) \in Command /\ Len(Tail(b)) = Len(b) - 1 /\ Len(b) \in Nat
      /\ Len(Tail(b)) \in Nat
  BY HeadTailProperties, LenProperties
<1>2. CASE Tail(b) = <<>>
  BY <1>1, <1>2 DEF After
<1>3. CASE Tail(b) # <<>>
  <2>1. Len(Tail(Tail(b))) = Len(Tail(b)) - 1 /\ Tail(Tail(b)) \in Seq(Command) /\ Len(Tail(b)) # 0
    BY <1>1, <1>3, HeadTailProperties, EmptySeq
  <2>2. Len(Tail(Tail(b))) = 0
    BY <1>1, <2>1, LenProperties
  <2>3. Tail(Tail(b)) = <<>>
    BY <2>1, <2>2, EmptySeq
  <2>4. QED
    BY <1>1, <1>3, <2>3 DEF After
<1>4. QED
  BY <1>2, <1>3

-----------------------------------------------------------------------------
(* The reconciler *)
LEMMA SilenceFollows ==
  ASSUME NEW r \in Reconcilers, NEW m \in Players, ~HeadlessAudible(r),
         m.track = r.loaded, r.loaded # HeadlessNone => r.hasEpoch /\ m.epoch = r.lastEpoch
  PROVE  /\ Silence(r).rec \in Reconcilers
         /\ Silence(r).commands \in Seq(Command) /\ Len(Silence(r).commands) <= 2
         /\ Follows(Silence(r).rec, After(m, Silence(r).commands))
<1>1. CASE r.state.track = HeadlessNone
  <2> DEFINE c == [op |-> "Stop"]
             q == [r EXCEPT !.loaded = HeadlessNone]
             n == Executed(m, c)
  <2>1. c \in Command /\ Silence(r).rec = q /\ Silence(r).commands = <<c>>
    BY <1>1 DEF Command, Silence
  <2>2. n.track = HeadlessNone
    BY DEF Executed, Players
  <2>3. q \in Reconcilers /\ q.loaded = HeadlessNone /\ q.known = r.known /\ q.state = r.state
    BY DEF Reconcilers
  <2>4. ~HeadlessAudible(q)
    BY <1>1, <2>3 DEF HeadlessAudible
  <2> HIDE DEF c, q, n
  <2>5. Follows(q, n)
    BY <2>2, <2>3, <2>4 DEF Follows
  <2>6. QED
    BY <2>1, <2>3, <2>5, OneCommand DEF n
<1>2. CASE r.state.track # HeadlessNone
  <2> DEFINE c == [op |-> "SetPaused", paused |-> TRUE]
             n == Executed(m, c)
  <2>1. c \in Command /\ Silence(r).rec = r /\ Silence(r).commands = <<c>>
    BY <1>2 DEF Command, Silence
  <2>2. n.track = m.track /\ n.epoch = m.epoch /\ n.paused
    BY DEF Executed, Players
  <2> HIDE DEF c, n
  <2>5. Follows(r, n)
    BY <2>2 DEF Follows
  <2>6. QED
    BY <2>1, <2>5, OneCommand DEF n
<1>3. QED
  BY <1>1, <1>2

(* The commands of Follow bring a player that follows the reconciler to the state it *)
(* follows.                                                                          *)
LEMMA FollowFollows ==
  ASSUME NEW r \in Reconcilers, NEW m \in Players, HeadlessAudible(r),
         m.track = r.loaded, r.loaded # HeadlessNone => r.hasEpoch /\ m.epoch = r.lastEpoch
  PROVE  /\ Follow(r).rec \in Reconcilers
         /\ Follow(r).commands \in Seq(Command) /\ Len(Follow(r).commands) <= 2
         /\ Follows(Follow(r).rec, After(m, Follow(r).commands))
<1> DEFINE q == [r EXCEPT !.loaded = r.state.track, !.lastEpoch = r.state.epoch, !.hasEpoch = TRUE]
<1>1. /\ Follow(r).rec = q /\ q \in Reconcilers /\ q.loaded = r.state.track /\ q.lastEpoch = r.state.epoch
      /\ q.hasEpoch = TRUE /\ q.state = r.state /\ q.known = r.known /\ q.localOn = r.localOn
  BY DEF Follow, Reconcilers, PlayerState
<1>2. /\ r.state.track \in HeadlessTracks /\ r.state.epoch \in Nat
      /\ HeadlessAudible(q)
  BY <1>1 DEF HeadlessAudible, Gate, Reconcilers, PlayerState
<1>3. ASSUME NEW n, n.track = r.state.track, n.epoch = r.state.epoch, ~n.paused PROVE Follows(q, n)
  BY <1>1, <1>2, <1>3 DEF Follows
<1> HIDE DEF q
<1>4. CASE r.loaded # r.state.track
  <2> DEFINE c == [op |-> "Load", track |-> r.state.track, epoch |-> r.state.epoch]
             n == Executed(m, c)
  <2>1. c \in Command /\ Follow(r).commands = <<c>>
    BY <1>2, <1>4 DEF Command, Follow
  <2>2. n.track = r.state.track /\ n.epoch = r.state.epoch /\ ~n.paused
    BY DEF Executed
  <2> HIDE DEF c, n
  <2>3. QED
    BY <1>1, <1>3, <2>1, <2>2, OneCommand DEF n
<1>5. CASE r.loaded = r.state.track /\ r.lastEpoch # r.state.epoch
  <2> DEFINE c == [op |-> "SeekAbsolute", epoch |-> r.state.epoch]
             d == [op |-> "SetPaused", paused |-> FALSE]
             n == Executed(Executed(m, c), d)
  <2>0. r.hasEpoch
    BY <1>2, <1>5, HeadlessAssumption
  <2>1. c \in Command /\ d \in Command /\ Follow(r).commands = <<c, d>>
    BY <1>2, <1>5, <2>0 DEF Command, Follow
  <2>2. Executed(m, c) \in Players /\ Executed(m, c).track = m.track /\ Executed(m, c).epoch = r.state.epoch
    BY <1>2 DEF Executed, Players
  <2>3. n.track = r.state.track /\ n.epoch = r.state.epoch /\ ~n.paused
    BY <1>5, <2>2 DEF Executed, Players
  <2> HIDE DEF c, d, n
  <2>4. QED
    BY <1>1, <1>3, <2>1, <2>3, TwoCommands DEF n
<1>6. CASE r.loaded = r.state.track /\ r.lastEpoch = r.state.epoch
  <2> DEFINE d == [op |-> "SetPaused", paused |-> FALSE]
             n == Executed(m, d)
  <2>0. m.epoch = r.state.epoch
    BY <1>2, <1>6, HeadlessAssumption
  <2>1. d \in Command /\ Follow(r).commands = <<d>>
    BY <1>6 DEF Command, Follow
  <2>2. n.track = r.state.track /\ n.epoch = r.state.epoch /\ ~n.paused
    BY <1>6, <2>0 DEF Executed, Players
  <2> HIDE DEF d, n
  <2>3. QED
    BY <1>1, <1>3, <2>1, <2>2, OneCommand DEF n
<1>7. QED
  BY <1>4, <1>5, <1>6

(* So do the commands of a reconciliation, audible or not. *)
LEMMA ReconcileFollows ==
  ASSUME NEW r \in Reconcilers, NEW m \in Players,
         m.track = r.loaded, r.loaded # HeadlessNone => r.hasEpoch /\ m.epoch = r.lastEpoch
  PROVE  LET out == HeadlessReconcile(r)
         IN  /\ out.rec \in Reconcilers /\ out.commands \in Seq(Command) /\ Len(out.commands) <= 2
             /\ Follows(out.rec, After(m, out.commands))
<1>1. CASE ~r.known
  BY <1>1 DEF HeadlessReconcile, After, Follows, HeadlessAudible
<1>2. CASE r.known /\ HeadlessAudible(r)
  BY <1>2, FollowFollows DEF HeadlessReconcile
<1>3. CASE r.known /\ ~HeadlessAudible(r)
  BY <1>3, SilenceFollows DEF HeadlessReconcile
<1>4. QED
  BY <1>1, <1>2, <1>3

(* A reconciliation gives at most two commands, and a reconciler that knows the epoch *)
(* of what it loaded.                                                                 *)
LEMMA ReconcileTyped ==
  ASSUME NEW r \in Reconcilers, Marked(r)
  PROVE  LET out == HeadlessReconcile(r)
         IN  out.rec \in Reconcilers /\ Marked(out.rec) /\ out.commands \in Seq(Command) /\ Len(out.commands) <= 2
<1> DEFINE m == [track |-> r.loaded, epoch |-> r.lastEpoch, paused |-> FALSE]
<1>1. m \in Players /\ m.track = r.loaded /\ m.epoch = r.lastEpoch
  BY DEF Players, Reconcilers
<1> HIDE DEF m
<1>2. QED
  BY <1>1, ReconcileFollows DEF Marked, Follows

-----------------------------------------------------------------------------
(* Each step *)
LEMMA NewAppliance ==
  ASSUME headlessServer \in PlayerState, wire = <<>>, rec = FreshReconciler, mpv = IdleMpv, holder = HeadlessNone,
         headlessBatch = [t \in HeadlessTasks |-> <<>>], raced = FALSE
  PROVE  HeadlessIInv
<1>1. NoState \in PlayerState
  BY DEF NoState, PlayerState
<1>2. /\ rec \in Reconcilers /\ rec.loaded = HeadlessNone /\ rec.known = FALSE
  BY <1>1 DEF FreshReconciler, Reconcilers
<1>3. mpv \in Players /\ mpv.track = HeadlessNone
  BY DEF IdleMpv, Players
<1>4. headlessBatch \in [HeadlessTasks -> Seq(Command)] /\ \A t \in HeadlessTasks : headlessBatch[t] = <<>>
  OBVIOUS
<1>5. HeadlessTyped
  <2>1. Len(<<>>) <= 2 /\ <<>> \in Seq(PlayerState) /\ FALSE \in BOOLEAN
    BY EmptySeq
  <2>2. QED
    BY <1>2, <1>3, <1>4, <2>1 DEF HeadlessTyped, Marked
<1>6. Follows(rec, mpv)
  BY <1>2, <1>3 DEF Follows, HeadlessAudible
<1>7. QED
  BY <1>4, <1>5, <1>6, HeadlessAssumption DEF HeadlessIInv, Holding, OneAtATime, WillFollow, After, HeadlessTasks

(* Before the first state nothing is loaded and nothing is on its way. *)
LEMMA HeadlessInitInv == HeadlessInit => HeadlessIInv
<1>1. NoState \in PlayerState
  BY DEF NoState, PlayerState
<1>2. QED
  BY <1>1, NewAppliance DEF HeadlessInit

(* The server and the wire only. *)
LEMMA ServerInv ==
  ASSUME HeadlessIInv, headlessServer' \in PlayerState, wire' \in Seq(PlayerState),
         UNCHANGED <<headlessBatch, holder, mpv, raced, rec>>
  PROVE  HeadlessIInv'
BY DEF HeadlessIInv, HeadlessTyped, Holding, OneAtATime, WillFollow, Follows, After, HeadlessAudible, Gate, Marked

(* A change of the room is a state with a new epoch. *)
LEMMA StateUpdate ==
  ASSUME NEW s \in PlayerState, NEW t \in HeadlessTracks \cup {HeadlessNone}, NEW p \in BOOLEAN
  PROVE  [s EXCEPT !.track = t, !.playing = p, !.epoch = @ + 1] \in PlayerState
<1> DEFINE x == [s EXCEPT !.track = t, !.playing = p, !.epoch = @ + 1]
<1>1. s.revision \in Nat /\ s.epoch \in Nat /\ s.active \in BOOLEAN /\ s.epoch + 1 \in Nat
  BY DEF PlayerState
<1>2. x.revision = s.revision /\ x.epoch = s.epoch + 1 /\ x.track = t /\ x.active = s.active
  BY DEF PlayerState
<1>3. x.playing = p
  BY DEF PlayerState
<1>4. x = [f \in DOMAIN s |-> x[f]] /\ DOMAIN x = DOMAIN s
  OBVIOUS
<1>5. DOMAIN s = {"revision", "epoch", "track", "playing", "active"}
  BY DEF PlayerState
<1> HIDE DEF x
<1>6. x \in PlayerState
  BY <1>1, <1>2, <1>3, <1>4, <1>5 DEF PlayerState
<1>7. QED
  BY <1>6 DEF x

(* A state that is published goes to the end of the wire. *)
LEMMA PublishInv ==
  ASSUME HeadlessIInv, NEW s \in PlayerState, HeadlessPublish(s)
  PROVE  HeadlessIInv'
<1> DEFINE n == [s EXCEPT !.revision = headlessServer.revision + 1]
<1>0. headlessServer \in PlayerState
  BY DEF HeadlessIInv, HeadlessTyped
<1>4. n \in PlayerState
  BY <1>0 DEF PlayerState
<1>1. /\ headlessServer' = n /\ wire' = HeadlessSend(n, wire) /\ wire \in Seq(PlayerState)
      /\ UNCHANGED <<headlessBatch, holder, mpv, raced, rec>>
  BY DEF HeadlessPublish, HeadlessIInv, HeadlessTyped
<1> HIDE DEF n
<1>2. wire' \in Seq(PlayerState)
  BY <1>1, <1>4 DEF HeadlessSend
<1>3. QED
  BY <1>1, <1>2, <1>4, ServerInv

(* The reconciler moves and task t has commands to run. *)
LEMMA ReconcilerInv ==
  ASSUME HeadlessIInv, NEW t \in HeadlessTasks, NEW r \in Reconcilers,
         r.loaded = rec.loaded, r.hasEpoch = rec.hasEpoch, r.lastEpoch = rec.lastEpoch,
         HeadlessIdle(t), rec' = HeadlessReconcile(r).rec,
         headlessBatch' = [headlessBatch EXCEPT ![t] = HeadlessReconcile(r).commands],
         raced' = (raced \/ \E u \in HeadlessTasks \ {t} : ~HeadlessIdle(u)),
         wire' \in Seq(PlayerState), UNCHANGED <<headlessServer, holder, mpv>>
  PROVE  HeadlessIInv'
<1> DEFINE out == HeadlessReconcile(r)
<1>1. /\ HeadlessTyped /\ Holding /\ (~raced => OneAtATime /\ WillFollow)
  BY DEF HeadlessIInv
<1>2. /\ headlessServer \in PlayerState /\ rec \in Reconcilers /\ mpv \in Players /\ raced \in BOOLEAN
      /\ headlessBatch \in [HeadlessTasks -> Seq(Command)] /\ Marked(rec)
      /\ \A u \in HeadlessTasks : Len(headlessBatch[u]) <= 2
  BY <1>1 DEF HeadlessTyped
<1>3. out.rec \in Reconcilers /\ Marked(out.rec) /\ out.commands \in Seq(Command) /\ Len(out.commands) <= 2
  BY <1>2, ReconcileTyped DEF Marked
<1> HIDE DEF out
<1>4. /\ headlessBatch'[t] = out.commands /\ \A u \in HeadlessTasks \ {t} : headlessBatch'[u] = headlessBatch[u]
      /\ headlessBatch' \in [HeadlessTasks -> Seq(Command)] /\ rec' = out.rec
  BY <1>2, <1>3 DEF out
<1>5. HeadlessTyped'
  BY <1>2, <1>3, <1>4 DEF HeadlessTyped, Marked
<1>6. Holding'
  BY <1>1, <1>4 DEF Holding, HeadlessIdle
<1>7. ASSUME ~raced' PROVE OneAtATime' /\ WillFollow'
  <2>1. ~raced /\ \A u \in HeadlessTasks : headlessBatch[u] = <<>>
    BY <1>7 DEF HeadlessIdle
  <2>2. Follows(rec, mpv)
    BY <1>1, <2>1 DEF WillFollow, After
  <2>3. Follows(out.rec, After(mpv, out.commands))
    BY <1>2, <2>2, ReconcileFollows DEF Follows, out
  <2>4. Follows(rec', After(mpv', headlessBatch'[t]))
    BY <1>4, <2>3
  <2>5. \A u \in HeadlessTasks \ {t} : headlessBatch'[u] = <<>>
    BY <1>4, <2>1
  <2>6. OneAtATime'
    BY <2>5 DEF OneAtATime, HeadlessTasks
  <2>7. ASSUME NEW u \in HeadlessTasks, \A z \in HeadlessTasks \ {u} : headlessBatch'[z] = <<>>
        PROVE  Follows(rec', After(mpv', headlessBatch'[u]))
    <3>1. CASE u = t
      BY <2>4, <3>1
    <3>2. CASE u # t
      <4>1. headlessBatch'[t] = headlessBatch'[u]
        BY <2>5, <2>7, <3>2
      <4>2. QED
        BY <2>4, <4>1
    <3>3. QED
      BY <3>1, <3>2
  <2>8. QED
    BY <2>6, <2>7 DEF WillFollow
<1>8. QED
  BY <1>5, <1>6, <1>7 DEF HeadlessIInv

(* A command of a batch that mpv has run is one less to come. *)
LEMMA ExecuteInv ==
  ASSUME HeadlessIInv, NEW t \in HeadlessTasks, ExecuteCommand(t)
  PROVE  HeadlessIInv'
<1> DEFINE b == headlessBatch[t]
<1>1. /\ HeadlessTyped /\ Holding /\ (~raced => OneAtATime /\ WillFollow)
  BY DEF HeadlessIInv
<1>2. /\ headlessServer \in PlayerState /\ rec \in Reconcilers /\ mpv \in Players /\ raced \in BOOLEAN
      /\ headlessBatch \in [HeadlessTasks -> Seq(Command)] /\ Marked(rec) /\ wire \in Seq(PlayerState)
      /\ \A u \in HeadlessTasks : Len(headlessBatch[u]) <= 2
  BY <1>1 DEF HeadlessTyped
<1>3. /\ b # <<>> /\ b \in Seq(Command) /\ Len(b) <= 2
      /\ mpv' = Executed(mpv, Head(b)) /\ headlessBatch' = [headlessBatch EXCEPT ![t] = Tail(b)]
      /\ holder' = IF Tail(b) = <<>> THEN HeadlessNone ELSE t
      /\ UNCHANGED <<headlessServer, wire, rec, raced>>
  BY <1>2 DEF ExecuteCommand
<1> HIDE DEF b
<1>4. /\ Tail(b) \in Seq(Command) /\ Len(Tail(b)) <= 2 /\ Head(b) \in Command
      /\ After(mpv', Tail(b)) = After(mpv, b)
  BY <1>3, AfterOne
<1>5. mpv' \in Players
  BY <1>2, <1>3, <1>4, ExecutedTyped
<1>6. /\ headlessBatch'[t] = Tail(b) /\ \A u \in HeadlessTasks \ {t} : headlessBatch'[u] = headlessBatch[u]
      /\ headlessBatch' \in [HeadlessTasks -> Seq(Command)]
  BY <1>2, <1>3, <1>4
<1>7. HeadlessTyped'
  BY <1>2, <1>3, <1>4, <1>5, <1>6 DEF HeadlessTyped, Marked
<1>8. Holding'
  BY <1>3, <1>6, HeadlessAssumption DEF Holding
<1>9. ASSUME ~raced' PROVE OneAtATime' /\ WillFollow'
  <2>1. \A u \in HeadlessTasks \ {t} : headlessBatch[u] = <<>>
    BY <1>1, <1>3, <1>9 DEF OneAtATime, HeadlessTasks, b
  <2>2. Follows(rec, After(mpv, b))
    BY <1>1, <1>3, <1>9, <2>1 DEF WillFollow, b
  <2>3. Follows(rec', After(mpv', headlessBatch'[t]))
    BY <1>3, <1>4, <1>6, <2>2
  <2>4. \A u \in HeadlessTasks \ {t} : headlessBatch'[u] = <<>>
    BY <1>6, <2>1
  <2>5. OneAtATime'
    BY <2>4 DEF OneAtATime, HeadlessTasks
  <2>6. ASSUME NEW u \in HeadlessTasks, \A z \in HeadlessTasks \ {u} : headlessBatch'[z] = <<>>
        PROVE  Follows(rec', After(mpv', headlessBatch'[u]))
    <3>1. headlessBatch'[t] = headlessBatch'[u]
      BY <2>4, <2>6
    <3>2. QED
      BY <2>3, <3>1
  <2>7. QED
    BY <2>5, <2>6 DEF WillFollow
<1>10. QED
  BY <1>7, <1>8, <1>9 DEF HeadlessIInv

(* Every step of the server, the wire, the two tasks and mpv keeps the invariant. *)
LEMMA HeadlessNextInv == HeadlessIInv /\ [HeadlessNext]_headlessVars => HeadlessIInv'
<1> SUFFICES ASSUME HeadlessIInv, [HeadlessNext]_headlessVars PROVE HeadlessIInv'
  OBVIOUS
<1>1. /\ HeadlessTyped /\ Holding /\ (~raced => OneAtATime /\ WillFollow)
  BY DEF HeadlessIInv
<1>2. /\ headlessServer \in PlayerState /\ rec \in Reconcilers /\ mpv \in Players /\ raced \in BOOLEAN
      /\ headlessBatch \in [HeadlessTasks -> Seq(Command)] /\ Marked(rec) /\ wire \in Seq(PlayerState)
      /\ \A u \in HeadlessTasks : Len(headlessBatch[u]) <= 2
  BY <1>1 DEF HeadlessTyped
<1>3. CASE ServerStep
  <2>1. ASSUME NEW t \in HeadlessTracks
        PROVE  [headlessServer EXCEPT !.track = t, !.playing = TRUE, !.epoch = @ + 1] \in PlayerState
    BY <1>2, StateUpdate
  <2>2. [headlessServer EXCEPT !.track = HeadlessNone, !.playing = FALSE, !.epoch = @ + 1] \in PlayerState
    BY <1>2, StateUpdate
  <2>3. [headlessServer EXCEPT !.playing = ~@] \in PlayerState
    BY <1>2 DEF PlayerState
  <2>4. [headlessServer EXCEPT !.epoch = @ + 1] \in PlayerState
    BY <1>2 DEF PlayerState
  <2>5. [headlessServer EXCEPT !.active = ~@] \in PlayerState
    BY <1>2 DEF PlayerState
  <2>6. QED
    BY <1>3, <2>1, <2>2, <2>3, <2>4, <2>5, PublishInv
       DEF ServerStep, ServerPlays, ServerStops, ServerToggles, ServerSeeks, ServerSwitches
<1>4. CASE ServerRestart
  <2>1. headlessServer' \in PlayerState /\ wire' = <<>> /\ UNCHANGED <<headlessBatch, holder, mpv, raced, rec>>
    BY <1>2, <1>4 DEF ServerRestart, PlayerState
  <2>2. QED
    BY <2>1, ServerInv, EmptySeq
<1>5. CASE ConnectionLost
  BY <1>2, <1>5, ServerInv, EmptySeq DEF ConnectionLost
<1>6. CASE Connect
  <2>1. /\ rec' = [rec EXCEPT !.gate = FALSE] /\ wire' = <<headlessServer>>
        /\ UNCHANGED <<headlessServer, headlessBatch, holder, mpv, raced>>
    BY <1>6 DEF Connect
  <2>2. /\ rec' \in Reconcilers /\ rec'.known = rec.known /\ rec'.state = rec.state /\ rec'.loaded = rec.loaded
        /\ rec'.lastEpoch = rec.lastEpoch /\ rec'.hasEpoch = rec.hasEpoch /\ rec'.localOn = rec.localOn
    BY <1>2, <2>1 DEF Reconcilers
  <2>3. wire' \in Seq(PlayerState)
    BY <1>2, <2>1
  <2>4. HeadlessTyped' /\ Holding'
    BY <1>1, <1>2, <2>1, <2>2, <2>3 DEF HeadlessTyped, Holding, Marked
  <2>5. ASSUME NEW m, Follows(rec, m) PROVE Follows(rec', m)
    BY <2>2, <2>5 DEF Follows, HeadlessAudible, Gate
  <2>6. ~raced' => OneAtATime' /\ WillFollow'
    BY <1>1, <2>1, <2>5 DEF OneAtATime, WillFollow
  <2>7. QED
    BY <2>4, <2>6 DEF HeadlessIInv
<1>7. CASE HeadlessApplyState
  <2>1. wire # <<>> /\ Head(wire) \in PlayerState /\ wire' = Tail(wire) /\ wire' \in Seq(PlayerState)
    BY <1>2, <1>7, HeadTailProperties DEF HeadlessApplyState
  <2>2. CASE Accepts(rec, Head(wire))
    <3> DEFINE r == [rec EXCEPT !.state = Head(wire), !.known = TRUE, !.gate = TRUE]
    <3>1. /\ HeadlessIdle("websocket") /\ rec' = HeadlessReconcile(r).rec
          /\ headlessBatch' = [headlessBatch EXCEPT !["websocket"] = HeadlessReconcile(r).commands]
          /\ raced' = (raced \/ ~HeadlessIdle("control")) /\ UNCHANGED <<headlessServer, holder, mpv>>
      BY <1>7, <2>2 DEF HeadlessApplyState
    <3>2. /\ r \in Reconcilers /\ r.loaded = rec.loaded /\ r.hasEpoch = rec.hasEpoch /\ r.lastEpoch = rec.lastEpoch
      BY <1>2, <2>1 DEF Reconcilers
    <3> HIDE DEF r
    <3>3. /\ "websocket" \in HeadlessTasks
          /\ raced' = (raced \/ \E u \in HeadlessTasks \ {"websocket"} : ~HeadlessIdle(u))
      BY <3>1 DEF HeadlessTasks
    <3>4. QED
      BY <2>1, <3>1, <3>2, <3>3, ReconcilerInv
  <2>3. CASE ~Accepts(rec, Head(wire))
    <3>1. UNCHANGED <<headlessServer, rec, headlessBatch, holder, mpv>> /\ raced' = (raced \/ ~HeadlessIdle("control"))
      BY <1>7, <2>3 DEF HeadlessApplyState
    <3>2. HeadlessTyped' /\ Holding'
      BY <1>1, <1>2, <2>1, <3>1 DEF HeadlessTyped, Holding, Marked
    <3>3. ~raced' => OneAtATime' /\ WillFollow'
      BY <1>1, <3>1 DEF OneAtATime, WillFollow
    <3>4. QED
      BY <3>2, <3>3 DEF HeadlessIInv
  <2>4. QED
    BY <2>2, <2>3
<1>8. CASE SetLocal
  <2>1. PICK on \in BOOLEAN :
          LET out == HeadlessReconcile([rec EXCEPT !.localOn = on])
          IN rec' = out.rec /\ headlessBatch' = [headlessBatch EXCEPT !["control"] = out.commands]
    BY <1>8 DEF SetLocal
  <2> DEFINE r == [rec EXCEPT !.localOn = on]
  <2>2. /\ rec' = HeadlessReconcile(r).rec
        /\ headlessBatch' = [headlessBatch EXCEPT !["control"] = HeadlessReconcile(r).commands]
    BY <2>1
  <2>3. /\ r \in Reconcilers /\ r.loaded = rec.loaded /\ r.hasEpoch = rec.hasEpoch /\ r.lastEpoch = rec.lastEpoch
    BY <1>2 DEF Reconcilers
  <2> HIDE DEF r
  <2>4. /\ "control" \in HeadlessTasks /\ HeadlessIdle("control")
        /\ raced' = (raced \/ \E u \in HeadlessTasks \ {"control"} : ~HeadlessIdle(u))
        /\ UNCHANGED <<headlessServer, holder, mpv, wire>>
    BY <1>8 DEF SetLocal, HeadlessTasks
  <2>5. QED
    BY <1>2, <2>2, <2>3, <2>4, ReconcilerInv
<1>9. ASSUME NEW t \in HeadlessTasks, TaskStep(t) PROVE HeadlessIInv'
  <2>1. CASE TakePlayer(t)
    BY <1>1, <1>2, <2>1 DEF TakePlayer, HeadlessIInv, HeadlessTyped, Holding, OneAtATime, WillFollow, Marked
  <2>2. QED
    BY <1>9, <2>1, ExecuteInv DEF TaskStep
<1>10. CASE ControlCommandFails
  <2>1. /\ headlessBatch' = [headlessBatch EXCEPT !["control"] = <<>>] /\ holder' = HeadlessNone /\ raced' = TRUE
        /\ UNCHANGED <<headlessServer, wire, rec, mpv>>
    BY <1>10 DEF ControlCommandFails
  <2>2. HeadlessTyped'
    BY <1>2, <2>1, EmptySeq DEF HeadlessTyped, Marked, HeadlessTasks
  <2>3. Holding'
    BY <2>1, HeadlessAssumption DEF Holding
  <2>4. QED
    BY <2>1, <2>2, <2>3 DEF HeadlessIInv
<1>11. CASE ApplianceRestarts
  <2>1. /\ headlessServer' \in PlayerState /\ wire' = <<>> /\ rec' = FreshReconciler /\ mpv' = IdleMpv
        /\ holder' = HeadlessNone /\ headlessBatch' = [t \in HeadlessTasks |-> <<>>] /\ raced' = FALSE
    BY <1>2, <1>11 DEF ApplianceRestarts
  <2>2. NoState \in PlayerState
    BY DEF NoState, PlayerState
  <2>3. /\ rec' \in Reconcilers /\ rec'.loaded = HeadlessNone /\ rec'.known = FALSE
    BY <2>1, <2>2 DEF FreshReconciler, Reconcilers
  <2>4. mpv' \in Players /\ mpv'.track = HeadlessNone
    BY <2>1 DEF IdleMpv, Players
  <2>5. headlessBatch' \in [HeadlessTasks -> Seq(Command)] /\ \A t \in HeadlessTasks : headlessBatch'[t] = <<>>
    BY <2>1
  <2>6. HeadlessTyped'
    <3>1. Len(<<>>) <= 2 /\ <<>> \in Seq(PlayerState) /\ FALSE \in BOOLEAN
      BY EmptySeq
    <3>2. QED
      BY <2>1, <2>3, <2>4, <2>5, <3>1 DEF HeadlessTyped, Marked
  <2>7. Follows(rec', mpv')
    BY <2>3, <2>4 DEF Follows, HeadlessAudible
  <2>8. QED
    BY <2>1, <2>5, <2>6, <2>7, HeadlessAssumption DEF HeadlessIInv, Holding, OneAtATime, WillFollow, After, HeadlessTasks
<1>12. CASE UNCHANGED headlessVars
  BY <1>2, <1>12, ServerInv DEF headlessVars
<1>13. QED
  BY <1>3, <1>4, <1>5, <1>6, <1>7, <1>8, <1>9, <1>10, <1>11, <1>12 DEF HeadlessNext

(* For every set of tracks and every length of the wire: whenever no       *)
(* command is under way, an output that is on has loaded the track of the  *)
(* last accepted state, at its epoch, and plays, and one that is off or    *)
(* has nothing to play is silent, with the local switch too, after every   *)
(* skip, seek, reconnection and restart, as long as no two batches of      *)
(* commands overlapped (the reconciler and the control endpoint of music-  *)
(* output).                                                                *)
THEOREM OutputFollowsTheServer == HeadlessSpec => []OutputIsRight
<1>1. HeadlessIInv => OutputIsRight
  <2> SUFFICES ASSUME HeadlessIInv, ~raced, HeadlessSettled PROVE Follows(rec, mpv)
    BY DEF OutputIsRight, PlaysWhatItShould, SilentWhenOff, Follows
  <2>1. WillFollow /\ \A t \in HeadlessTasks : headlessBatch[t] = <<>>
    BY DEF HeadlessIInv, HeadlessSettled, HeadlessIdle
  <2>2. QED
    BY <2>1 DEF WillFollow, After, HeadlessTasks
<1>2. QED
  BY HeadlessInitInv, HeadlessNextInv, <1>1, PTL DEF HeadlessSpec

=============================================================================
