------------------------- MODULE HostSession_proofs -------------------------
(***************************************************************************)
(* Proofs about the warm session, for any number of guests and calls and   *)
(* every fault.                                                            *)
(***************************************************************************)
EXTENDS HostSession, TLAPS

-----------------------------------------------------------------------------
(* The inductive invariant *)

Frame(n) == <<n>>
Frames == {<<>>} \cup {Frame(n) : n \in Call}
Busy(g) == state[g] \in {"evaluating", "answering"}

\* A guest has one frame at a time, of a call that was made and not yet evaluated,
\* and no two guests have a frame of the same call.
FrameInv ==
  /\ request \in [Guest -> Frames] /\ reply \in [Guest -> Frames]
  /\ \A g \in Guest, n \in Call : request[g] = Frame(n) => n <= call /\ evaluated[n] = 0
  /\ \A g, h \in Guest, n \in Call : request[g] = Frame(n) /\ request[h] = Frame(n) => g = h
  /\ \A g \in Guest : state[g] = "none" => request[g] = <<>> /\ reply[g] = <<>>

\* What a guest evaluates was evaluated once, and leaves its bindings with it.
TaskInv ==
  \A g \in Guest :
    /\ Busy(g) => task[g] \in Call /\ task[g] <= call /\ evaluated[task[g]] = 1
    /\ state[g] = "answering" => task[g] \in session[g]

\* What happened to each call so far.
HistoryInv ==
  \A n \in Call :
    /\ evaluated[n] <= 1
    /\ n > call => evaluated[n] = 0 /\ answer[n] = "none"
    /\ answer[n] = "result" => source[n] = n /\ evaluated[n] = 1

\* The call in hand: until its frame is written nobody has it, and then one of the
\* request, the evaluation and the reply does, or it is lost.
HandInv ==
  /\ step # "idle" => call \in Call /\ answer[call] = "none"
  /\ step \in {"start", "send"} => evaluated[call] = 0 /\ \A g \in Guest : request[g] # Frame(call)
  /\ step \in {"send", "await"} => proc \in Guest
  /\ step = "fail" => ~Alive(proc)
  /\ proc \in Guest => state[proc] # "none" /\ proc \in piped
  /\ step \in {"idle", "start", "send"} /\ proc \in Guest =>
       request[proc] = <<>> /\ reply[proc] = <<>> /\ state[proc] \in {"reading", "dead"}
  /\ step = "await" =>
       /\ request[proc] \in {<<>>, Frame(call)} /\ reply[proc] \in {<<>>, Frame(call)}
       /\ request[proc] # <<>> => reply[proc] = <<>>
       /\ Busy(proc) => task[proc] = call /\ request[proc] = <<>> /\ reply[proc] = <<>>
       /\ reply[proc] # <<>> => evaluated[call] = 1 /\ call \in session[proc]

\* A guest that lives on without its host has a call nobody answered, if any, and
\* nowhere to write to.
LeftInv ==
  \A g \in Guest : g # proc /\ Alive(g) =>
    /\ g \notin piped
    /\ \A n \in Call : request[g] = Frame(n) => answer[n] = "nobody"
    /\ Busy(g) => answer[task[g]] = "nobody"

\* What the client counts on is in the session of the guest the host has.
MemoryInv ==
  /\ Alive(proc) => memory \subseteq session[proc]
  /\ step \in {"idle", "start"} /\ ~Alive(proc) => memory = {}

IInv ==
  /\ SessionTypeOK
  /\ FrameInv
  /\ TaskInv
  /\ HistoryInv
  /\ HandInv
  /\ LeftInv
  /\ MemoryInv

-----------------------------------------------------------------------------
(* Steps *)

\* A queue of frames never holds two, and a frame is its call.
LEMMA FrameFacts ==
    /\ \A n \in Call : /\ Frame(n) # <<>> /\ Frame(n) \in Frames
                      /\ Head(Frame(n)) = n /\ Tail(Frame(n)) = <<>>
                      /\ Append(<<>>, n) = Frame(n)
    /\ \A m, n \in Call : Frame(m) = Frame(n) => m = n
    /\ <<>> \in Frames
    /\ \A f \in Frames : f = <<>> \/ \E n \in Call : f = Frame(n)
    /\ Frames \subseteq Seq(Call)
<1>1. \A n \in Call : /\ Frame(n) # <<>> /\ Head(Frame(n)) = n /\ Tail(Frame(n)) = <<>>
                    /\ Append(<<>>, n) = Frame(n) /\ Frame(n) \in Seq(Call)
  BY DEF Frame
<1>2. \A m, n \in Call : Frame(m) = Frame(n) => m = n
  BY <1>1
<1>3. <<>> \in Seq(Call)
  OBVIOUS
<1>4. /\ \A n \in Call : Frame(n) \in Frames
      /\ <<>> \in Frames
      /\ \A f \in Frames : f = <<>> \/ \E n \in Call : f = Frame(n)
  BY DEF Frames
<1>5. Frames \subseteq Seq(Call)
  BY <1>1, <1>3, <1>4
<1>. QED
  BY <1>1, <1>2, <1>4, <1>5

\* Every step keeps the types.
LEMMA TypesNext ==
    ASSUME SessionTypeOK, FrameInv, TaskInv, HandInv, [Next]_vars
    PROVE  SessionTypeOK'
<1>1. ASSUME Begin PROVE SessionTypeOK'
  <2>1. call + 1 \in 1..MaxCalls
    BY <1>1, HostAssumption DEF Begin, SessionTypeOK
  <2>2. call' \in 0..MaxCalls
    BY <1>1, <2>1 DEF Begin
  <2>. QED
    BY <1>1, <2>2 DEF Begin, guests, history, SessionTypeOK
<1>2. ASSUME EnsureStarted, Alive(proc) PROVE SessionTypeOK'
  BY <1>2, FrameFacts DEF EnsureStarted, SpawnAs, guests, history, SessionTypeOK, FrameInv, TaskInv, HandInv, Busy, Call, Alive
<1>3. ASSUME NEW g \in Guest, step = "start", ~Alive(proc), SpawnAs(g) PROVE SessionTypeOK'
  BY <1>3, FrameFacts DEF SpawnAs, history, SessionTypeOK, FrameInv, TaskInv, HandInv, Busy, Call, Alive
<1>4. ASSUME step = "start", ~Alive(proc), step' = "fail", UNCHANGED <<proc, call, late, guests, history>> PROVE SessionTypeOK'
  BY <1>4, FrameFacts DEF guests, history, SessionTypeOK, FrameInv, TaskInv, HandInv, Busy, Call, Alive
<1>5. ASSUME Send PROVE SessionTypeOK'
  <2>1. request' \in [Guest -> Seq(Call)]
    <3>1. call \in Call /\ proc \in Guest /\ request[proc] = <<>>
      BY <1>5 DEF Send, HandInv
    <3>2. Append(request[proc], call) \in Seq(Call)
      BY <3>1, FrameFacts
    <3>. QED
      BY <1>5, <3>2 DEF Send, SessionTypeOK
  <2>2. reply' \in [Guest -> Seq(Call)]
    BY <1>5 DEF Send, SessionTypeOK, history
  <2>3. task' \in [Guest -> Call \cup {None}]
    BY <1>5 DEF Send, SessionTypeOK, history
  <2>. QED
    BY <1>5, <2>1, <2>2, <2>3 DEF Send, SessionTypeOK, history
<1>6. ASSUME Receive PROVE SessionTypeOK'
  BY <1>6, FrameFacts DEF Receive, SessionTypeOK, FrameInv, TaskInv, HandInv, Busy, Call, Alive
<1>7. ASSUME EndOfFile PROVE SessionTypeOK'
  BY <1>7, FrameFacts DEF EndOfFile, guests, history, SessionTypeOK, FrameInv, TaskInv, HandInv, Busy, Call, Alive
<1>8. ASSUME Tick PROVE SessionTypeOK'
  BY <1>8, FrameFacts DEF Tick, guests, history, SessionTypeOK, FrameInv, TaskInv, HandInv, Busy, Call, Alive
<1>9. ASSUME NEW kind \in {"timeout", "failed"}, step \in {"await", "fail"}, KillGuest(kind) PROVE SessionTypeOK'
  BY <1>9, FrameFacts DEF KillGuest, Settle, SessionTypeOK, FrameInv, TaskInv, HandInv, Busy, Call, Alive
<1>10. ASSUME Shutdown PROVE SessionTypeOK'
  BY <1>10, FrameFacts DEF Shutdown, SessionTypeOK, FrameInv, TaskInv, HandInv, Busy, Call, Alive
<1>11. ASSUME HostCrashes PROVE SessionTypeOK'
  BY <1>11, FrameFacts DEF HostCrashes, SessionTypeOK, FrameInv, TaskInv, HandInv, Busy, Call, Alive
<1>12. ASSUME NEW g \in Guest, Accept(g) PROVE SessionTypeOK'
  BY SMTT(30), <1>12, FrameFacts DEF Accept, host, SessionTypeOK, FrameInv, TaskInv, HandInv, Busy, Call, Alive
<1>13. ASSUME NEW g \in Guest, Finish(g) PROVE SessionTypeOK'
  BY <1>13, FrameFacts DEF Finish, host, history, SessionTypeOK, FrameInv, TaskInv, HandInv, Busy, Call, Alive
<1>14. ASSUME NEW g \in Guest, Reply(g) PROVE SessionTypeOK'
  <2>1. request' \in [Guest -> Seq(Call)]
    BY <1>14 DEF Reply, SessionTypeOK, host, history
  <2>2. reply' \in [Guest -> Seq(Call)]
    <3>1. CASE g \in piped
      <4>1. task[g] \in Call
        BY <1>14 DEF Reply, TaskInv, Busy
      <4>2. Append(reply[g], task[g]) \in Seq(Call)
        BY <4>1 DEF SessionTypeOK
      <4>. QED
        BY <1>14, <3>1, <4>2 DEF Reply, SessionTypeOK
    <3>2. CASE g \notin piped
      BY <1>14, <3>2 DEF Reply, SessionTypeOK
    <3>. QED
      BY <3>1, <3>2
  <2>3. task' \in [Guest -> Call \cup {None}]
    BY <1>14 DEF Reply, SessionTypeOK, host, history
  <2>. QED
    BY <1>14, <2>1, <2>2, <2>3 DEF Reply, SessionTypeOK, host, history
<1>15. ASSUME NEW g \in Guest, Leave(g) PROVE SessionTypeOK'
  BY <1>15, FrameFacts DEF Leave, host, history, SessionTypeOK, FrameInv, TaskInv, HandInv, Busy, Call, Alive
<1>16. ASSUME NEW g \in Guest, Refuse(g) PROVE SessionTypeOK'
  BY <1>16, FrameFacts DEF Refuse, host, history, SessionTypeOK, FrameInv, TaskInv, HandInv, Busy, Call, Alive
<1>17. ASSUME NEW g \in Guest, Crash(g) PROVE SessionTypeOK'
  BY <1>17, FrameFacts DEF Crash, host, SessionTypeOK, FrameInv, TaskInv, HandInv, Busy, Call, Alive
<1>18. ASSUME NEW g \in Guest, Steal(g) PROVE SessionTypeOK'
  <2>1. request' \in [Guest -> Seq(Call)]
    <3>1. Tail(request[g]) = <<>> /\ <<>> \in Seq(Call)
      BY <1>18, FrameFacts DEF Steal, FrameInv
    <3>. QED
      BY <1>18, <3>1 DEF Steal, SessionTypeOK
  <2>2. reply' \in [Guest -> Seq(Call)]
    BY <1>18 DEF Steal, SessionTypeOK, host, history
  <2>3. task' \in [Guest -> Call \cup {None}]
    BY <1>18 DEF Steal, SessionTypeOK, host, history
  <2>. QED
    BY <1>18, <2>1, <2>2, <2>3 DEF Steal, SessionTypeOK, host, history
<1>19. CASE UNCHANGED vars
  BY <1>19 DEF vars, host, guests, history, SessionTypeOK, FrameInv, TaskInv, HandInv, Busy, Call, Alive
<1>. QED
  BY <1>1, <1>2, <1>3, <1>4, <1>5, <1>6, <1>7, <1>8, <1>9, <1>10, <1>11, <1>12, <1>13, <1>14, <1>15, <1>16, <1>17, <1>18, <1>19
     DEF Next, HostStep, GuestStep, EnsureStarted, Expire, Fail

\* A frame is written for a call of which there is none yet.
LEMMA FrameNext ==
    ASSUME SessionTypeOK, FrameInv, TaskInv, HandInv, LeftInv, [Next]_vars
    PROVE  FrameInv'
<1>1. ASSUME Begin PROVE FrameInv'
  BY <1>1, FrameFacts DEF Begin, guests, history, SessionTypeOK, FrameInv, TaskInv, HandInv, LeftInv, Busy, Call, Alive
<1>2. ASSUME EnsureStarted, Alive(proc) PROVE FrameInv'
  BY <1>2, FrameFacts DEF EnsureStarted, SpawnAs, guests, history, SessionTypeOK, FrameInv, TaskInv, HandInv, LeftInv, Busy, Call, Alive
<1>3. ASSUME NEW g \in Guest, step = "start", ~Alive(proc), SpawnAs(g) PROVE FrameInv'
  BY <1>3, FrameFacts DEF SpawnAs, history, SessionTypeOK, FrameInv, TaskInv, HandInv, LeftInv, Busy, Call, Alive
<1>4. ASSUME step = "start", ~Alive(proc), step' = "fail", UNCHANGED <<proc, call, late, guests, history>> PROVE FrameInv'
  BY <1>4, FrameFacts DEF guests, history, SessionTypeOK, FrameInv, TaskInv, HandInv, LeftInv, Busy, Call, Alive
<1>5. ASSUME Send PROVE FrameInv'
  <2>1. CASE ~Alive(proc)
    BY <1>5, <2>1 DEF Send, FrameInv, history
  <2>2. CASE Alive(proc)
    <3>1. /\ proc \in Guest /\ call \in Call /\ request[proc] = <<>> /\ evaluated[call] = 0
          /\ \A g \in Guest : request[g] # Frame(call)
          /\ state[proc] # "none"
      BY <1>5 DEF Send, HandInv
    <3>2. /\ request' = [request EXCEPT ![proc] = Frame(call)]
          /\ UNCHANGED <<reply, call, state, evaluated>>
      BY <1>5, <2>2, <3>1, FrameFacts DEF Send, history
    <3>3. \A h \in Guest, n \in Call :
            request'[h] = Frame(n) => (h = proc /\ n = call) \/ (h # proc /\ n # call /\ request[h] = Frame(n))
      BY <3>1, <3>2, FrameFacts DEF FrameInv
    <3>4. request' \in [Guest -> Frames] /\ reply' \in [Guest -> Frames]
      BY <3>1, <3>2, FrameFacts DEF FrameInv
    <3>5. \A h \in Guest, n \in Call : request'[h] = Frame(n) => n <= call' /\ evaluated'[n] = 0
      BY <3>1, <3>2, <3>3 DEF FrameInv, Call
    <3>6. \A h, k \in Guest, n \in Call :
            request'[h] = Frame(n) /\ request'[k] = Frame(n) => h = k
      BY <3>3 DEF FrameInv
    <3>7. \A h \in Guest : state'[h] = "none" => request'[h] = <<>> /\ reply'[h] = <<>>
      BY <3>1, <3>2 DEF FrameInv
    <3>. QED
      BY <3>4, <3>5, <3>6, <3>7 DEF FrameInv
  <2>. QED
    BY <2>1, <2>2
<1>6. ASSUME Receive PROVE FrameInv'
  <2>1. proc \in Guest /\ reply[proc] # <<>> /\ reply[proc] \in Frames
    BY <1>6 DEF Receive, HandInv, FrameInv
  <2>2. reply' = [reply EXCEPT ![proc] = <<>>]
    BY <1>6, <2>1, FrameFacts DEF Receive
  <2>3. UNCHANGED <<request, call, state, evaluated>>
    BY <1>6 DEF Receive
  <2>4. reply' \in [Guest -> Frames]
    BY <2>2, FrameFacts DEF FrameInv
  <2>5. \A h \in Guest : state'[h] = "none" => request'[h] = <<>> /\ reply'[h] = <<>>
    BY <2>2, <2>3 DEF FrameInv
  <2>. QED
    BY <2>3, <2>4, <2>5 DEF FrameInv
<1>7. ASSUME EndOfFile PROVE FrameInv'
  BY <1>7, FrameFacts DEF EndOfFile, guests, history, SessionTypeOK, FrameInv, TaskInv, HandInv, LeftInv, Busy, Call, Alive
<1>8. ASSUME Tick PROVE FrameInv'
  BY <1>8, FrameFacts DEF Tick, guests, history, SessionTypeOK, FrameInv, TaskInv, HandInv, LeftInv, Busy, Call, Alive
<1>9. ASSUME NEW kind \in {"timeout", "failed"}, step \in {"await", "fail"}, KillGuest(kind) PROVE FrameInv'
  BY <1>9, FrameFacts DEF KillGuest, Settle, SessionTypeOK, FrameInv, TaskInv, HandInv, LeftInv, Busy, Call, Alive
<1>10. ASSUME Shutdown PROVE FrameInv'
  BY <1>10, FrameFacts DEF Shutdown, SessionTypeOK, FrameInv, TaskInv, HandInv, LeftInv, Busy, Call, Alive
<1>11. ASSUME HostCrashes PROVE FrameInv'
  BY <1>11, FrameFacts DEF HostCrashes, SessionTypeOK, FrameInv, TaskInv, HandInv, LeftInv, Busy, Call, Alive
<1>12. ASSUME NEW g \in Guest, Accept(g) PROVE FrameInv'
  <2>1. /\ request[g] \in Frames /\ request[g] # <<>>
        /\ request' = [request EXCEPT ![g] = <<>>]
        /\ reply' = reply /\ call' = call
    <3>1. Tail(request[g]) = <<>>
      BY <1>12, FrameFacts DEF Accept, FrameInv
    <3>. QED
      BY <1>12, <3>1 DEF Accept, FrameInv, host
  <2>2. \A h \in Guest, n \in Call : request'[h] = Frame(n) => h # g /\ request[h] = Frame(n)
    BY <2>1, FrameFacts DEF FrameInv
  <2>3. \A h \in Guest, n \in Call : request'[h] = Frame(n) => evaluated'[n] = evaluated[n]
    <3>1. PICK m \in Call : request[g] = Frame(m)
      BY <2>1, FrameFacts
    <3>2. evaluated' = [evaluated EXCEPT ![m] = evaluated[m] + 1]
      BY <1>12, <3>1, FrameFacts DEF Accept
    <3>3. \A h \in Guest, n \in Call : request'[h] = Frame(n) => n # m
      BY <2>2, <3>1 DEF FrameInv
    <3>. QED
      BY <3>2, <3>3 DEF SessionTypeOK
  <2>4. \A h \in Guest : state'[h] = "none" => state[h] = "none"
    BY <1>12 DEF Accept, SessionTypeOK
  <2>5. request' \in [Guest -> Frames] /\ reply' \in [Guest -> Frames]
    BY <2>1, FrameFacts DEF FrameInv
  <2>6. \A h \in Guest, n \in Call : request'[h] = Frame(n) => n <= call' /\ evaluated'[n] = 0
    BY <2>1, <2>2, <2>3 DEF FrameInv
  <2>7. \A h, k \in Guest, n \in Call :
          request'[h] = Frame(n) /\ request'[k] = Frame(n) => h = k
    BY <2>2 DEF FrameInv
  <2>8. \A h \in Guest : state'[h] = "none" => request'[h] = <<>> /\ reply'[h] = <<>>
    BY <2>1, <2>4 DEF FrameInv
  <2>. QED
    BY <2>5, <2>6, <2>7, <2>8 DEF FrameInv
<1>13. ASSUME NEW g \in Guest, Finish(g) PROVE FrameInv'
  BY <1>13, FrameFacts DEF Finish, host, history, SessionTypeOK, FrameInv, TaskInv, HandInv, LeftInv, Busy, Call, Alive
<1>14. ASSUME NEW g \in Guest, Reply(g) PROVE FrameInv'
  <2>1. CASE g \notin piped
    BY <1>14, <2>1 DEF Reply, FrameInv, SessionTypeOK, host, history
  <2>2. CASE g \in piped
    <3>1. task[g] \in Call /\ reply[g] = <<>>
      <4>1. Busy(g) /\ Alive(g) /\ state[g] \notin {"reading", "dead"}
        BY <1>14 DEF Reply, Busy, Alive
      <4>2. g = proc
        BY <2>2, <4>1 DEF LeftInv
      <4>3. step = "await"
        BY <4>1, <4>2 DEF HandInv, SessionTypeOK
      <4>. QED
        BY <4>1, <4>2, <4>3 DEF HandInv, TaskInv
    <3>2. reply' = [reply EXCEPT ![g] = Frame(task[g])] /\ UNCHANGED <<request, call, evaluated>>
      BY <1>14, <2>2, <3>1, FrameFacts DEF Reply, host, history
    <3>3. reply' \in [Guest -> Frames]
      BY <3>1, <3>2, FrameFacts DEF FrameInv
    <3>4. state' = [state EXCEPT ![g] = "reading"]
      BY <1>14, <2>2 DEF Reply
    <3>5. \A h \in Guest : state'[h] = "none" => request'[h] = <<>> /\ reply'[h] = <<>>
      BY <3>2, <3>4 DEF FrameInv, SessionTypeOK
    <3>. QED
      BY <3>2, <3>3, <3>5 DEF FrameInv
  <2>. QED
    BY <2>1, <2>2
<1>15. ASSUME NEW g \in Guest, Leave(g) PROVE FrameInv'
  BY <1>15 DEF Leave, FrameInv, SessionTypeOK, host, history
<1>16. ASSUME NEW g \in Guest, Refuse(g) PROVE FrameInv'
  BY <1>16, FrameFacts DEF Refuse, host, history, SessionTypeOK, FrameInv, TaskInv, HandInv, LeftInv, Busy, Call, Alive
<1>17. ASSUME NEW g \in Guest, Crash(g) PROVE FrameInv'
  BY <1>17, FrameFacts DEF Crash, host, SessionTypeOK, FrameInv, TaskInv, HandInv, LeftInv, Busy, Call, Alive
<1>18. ASSUME NEW g \in Guest, Steal(g) PROVE FrameInv'
  <2>1. /\ request[g] \in Frames /\ request[g] # <<>>
        /\ request' = [request EXCEPT ![g] = <<>>]
        /\ reply' = reply /\ call' = call
    <3>1. Tail(request[g]) = <<>>
      BY <1>18, FrameFacts DEF Steal, FrameInv
    <3>. QED
      BY <1>18, <3>1 DEF Steal, FrameInv, host
  <2>2. \A h \in Guest, n \in Call : request'[h] = Frame(n) => h # g /\ request[h] = Frame(n)
    BY <2>1, FrameFacts DEF FrameInv
  <2>3. \A h \in Guest, n \in Call : request'[h] = Frame(n) => evaluated'[n] = evaluated[n]
    BY <1>18 DEF Steal, history
  <2>4. \A h \in Guest : state'[h] = "none" => state[h] = "none"
    BY <1>18 DEF Steal, SessionTypeOK
  <2>5. request' \in [Guest -> Frames] /\ reply' \in [Guest -> Frames]
    BY <2>1, FrameFacts DEF FrameInv
  <2>6. \A h \in Guest, n \in Call : request'[h] = Frame(n) => n <= call' /\ evaluated'[n] = 0
    BY <2>1, <2>2, <2>3 DEF FrameInv
  <2>7. \A h, k \in Guest, n \in Call :
          request'[h] = Frame(n) /\ request'[k] = Frame(n) => h = k
    BY <2>2 DEF FrameInv
  <2>8. \A h \in Guest : state'[h] = "none" => request'[h] = <<>> /\ reply'[h] = <<>>
    BY <2>1, <2>4 DEF FrameInv
  <2>. QED
    BY <2>5, <2>6, <2>7, <2>8 DEF FrameInv
<1>19. CASE UNCHANGED vars
  BY <1>19 DEF vars, host, guests, history, SessionTypeOK, FrameInv, TaskInv, HandInv, LeftInv, Busy, Call, Alive
<1>. QED
  BY <1>1, <1>2, <1>3, <1>4, <1>5, <1>6, <1>7, <1>8, <1>9, <1>10, <1>11, <1>12, <1>13, <1>14, <1>15, <1>16, <1>17, <1>18, <1>19
     DEF Next, HostStep, GuestStep, EnsureStarted, Expire, Fail

\* A frame is of a call that was never evaluated.
LEMMA TaskNext ==
    ASSUME SessionTypeOK, FrameInv, TaskInv, [Next]_vars
    PROVE  TaskInv'
<1>1. ASSUME Begin PROVE TaskInv'
  BY <1>1, FrameFacts DEF Begin, guests, history, SessionTypeOK, FrameInv, TaskInv, Busy, Call, Alive
<1>2. ASSUME EnsureStarted, Alive(proc) PROVE TaskInv'
  BY <1>2, FrameFacts DEF EnsureStarted, SpawnAs, guests, history, SessionTypeOK, FrameInv, TaskInv, Busy, Call, Alive
<1>3. ASSUME NEW g \in Guest, step = "start", ~Alive(proc), SpawnAs(g) PROVE TaskInv'
  BY <1>3, FrameFacts DEF SpawnAs, history, SessionTypeOK, FrameInv, TaskInv, Busy, Call, Alive
<1>4. ASSUME step = "start", ~Alive(proc), step' = "fail", UNCHANGED <<proc, call, late, guests, history>> PROVE TaskInv'
  BY <1>4, FrameFacts DEF guests, history, SessionTypeOK, FrameInv, TaskInv, Busy, Call, Alive
<1>5. ASSUME Send PROVE TaskInv'
  BY <1>5, FrameFacts DEF Send, history, SessionTypeOK, FrameInv, TaskInv, Busy, Call, Alive
<1>6. ASSUME Receive PROVE TaskInv'
  BY <1>6, FrameFacts DEF Receive, SessionTypeOK, FrameInv, TaskInv, Busy, Call, Alive
<1>7. ASSUME EndOfFile PROVE TaskInv'
  BY <1>7, FrameFacts DEF EndOfFile, guests, history, SessionTypeOK, FrameInv, TaskInv, Busy, Call, Alive
<1>8. ASSUME Tick PROVE TaskInv'
  BY <1>8, FrameFacts DEF Tick, guests, history, SessionTypeOK, FrameInv, TaskInv, Busy, Call, Alive
<1>9. ASSUME NEW kind \in {"timeout", "failed"}, step \in {"await", "fail"}, KillGuest(kind) PROVE TaskInv'
  BY <1>9, FrameFacts DEF KillGuest, Settle, SessionTypeOK, FrameInv, TaskInv, Busy, Call, Alive
<1>10. ASSUME Shutdown PROVE TaskInv'
  BY <1>10, FrameFacts DEF Shutdown, SessionTypeOK, FrameInv, TaskInv, Busy, Call, Alive
<1>11. ASSUME HostCrashes PROVE TaskInv'
  BY <1>11, FrameFacts DEF HostCrashes, SessionTypeOK, FrameInv, TaskInv, Busy, Call, Alive
<1>12. ASSUME NEW g \in Guest, Accept(g) PROVE TaskInv'
  BY SMTT(30), <1>12, FrameFacts DEF Accept, host, SessionTypeOK, FrameInv, TaskInv, Busy, Call, Alive
<1>13. ASSUME NEW g \in Guest, Finish(g) PROVE TaskInv'
  BY <1>13, FrameFacts DEF Finish, host, history, SessionTypeOK, FrameInv, TaskInv, Busy, Call, Alive
<1>14. ASSUME NEW g \in Guest, Reply(g) PROVE TaskInv'
  BY <1>14, FrameFacts DEF Reply, host, history, SessionTypeOK, FrameInv, TaskInv, Busy, Call, Alive
<1>15. ASSUME NEW g \in Guest, Leave(g) PROVE TaskInv'
  BY <1>15, FrameFacts DEF Leave, host, history, SessionTypeOK, FrameInv, TaskInv, Busy, Call, Alive
<1>16. ASSUME NEW g \in Guest, Refuse(g) PROVE TaskInv'
  BY <1>16, FrameFacts DEF Refuse, host, history, SessionTypeOK, FrameInv, TaskInv, Busy, Call, Alive
<1>17. ASSUME NEW g \in Guest, Crash(g) PROVE TaskInv'
  BY <1>17, FrameFacts DEF Crash, host, SessionTypeOK, FrameInv, TaskInv, Busy, Call, Alive
<1>18. ASSUME NEW g \in Guest, Steal(g) PROVE TaskInv'
  BY <1>18, FrameFacts DEF Steal, host, history, SessionTypeOK, FrameInv, TaskInv, Busy, Call, Alive
<1>19. CASE UNCHANGED vars
  BY <1>19 DEF vars, host, guests, history, SessionTypeOK, FrameInv, TaskInv, Busy, Call, Alive
<1>. QED
  BY <1>1, <1>2, <1>3, <1>4, <1>5, <1>6, <1>7, <1>8, <1>9, <1>10, <1>11, <1>12, <1>13, <1>14, <1>15, <1>16, <1>17, <1>18, <1>19
     DEF Next, HostStep, GuestStep, EnsureStarted, Expire, Fail

\* A call is evaluated once, and answered with what the guest in hand wrote.
LEMMA HistoryNext ==
    ASSUME SessionTypeOK, FrameInv, HistoryInv, HandInv, [Next]_vars
    PROVE  HistoryInv'
<1>1. ASSUME Begin PROVE HistoryInv'
  BY <1>1, FrameFacts DEF Begin, guests, history, SessionTypeOK, FrameInv, HistoryInv, HandInv, Busy, Call, Alive
<1>2. ASSUME EnsureStarted, Alive(proc) PROVE HistoryInv'
  BY <1>2, FrameFacts DEF EnsureStarted, SpawnAs, guests, history, SessionTypeOK, FrameInv, HistoryInv, HandInv, Busy, Call, Alive
<1>3. ASSUME NEW g \in Guest, step = "start", ~Alive(proc), SpawnAs(g) PROVE HistoryInv'
  BY <1>3, FrameFacts DEF SpawnAs, history, SessionTypeOK, FrameInv, HistoryInv, HandInv, Busy, Call, Alive
<1>4. ASSUME step = "start", ~Alive(proc), step' = "fail", UNCHANGED <<proc, call, late, guests, history>> PROVE HistoryInv'
  BY <1>4, FrameFacts DEF guests, history, SessionTypeOK, FrameInv, HistoryInv, HandInv, Busy, Call, Alive
<1>5. ASSUME Send PROVE HistoryInv'
  BY <1>5, FrameFacts DEF Send, history, SessionTypeOK, FrameInv, HistoryInv, HandInv, Busy, Call, Alive
<1>6. ASSUME Receive PROVE HistoryInv'
  BY <1>6, FrameFacts DEF Receive, SessionTypeOK, FrameInv, HistoryInv, HandInv, Busy, Call, Alive
<1>7. ASSUME EndOfFile PROVE HistoryInv'
  BY <1>7, FrameFacts DEF EndOfFile, guests, history, SessionTypeOK, FrameInv, HistoryInv, HandInv, Busy, Call, Alive
<1>8. ASSUME Tick PROVE HistoryInv'
  BY <1>8, FrameFacts DEF Tick, guests, history, SessionTypeOK, FrameInv, HistoryInv, HandInv, Busy, Call, Alive
<1>9. ASSUME NEW kind \in {"timeout", "failed"}, step \in {"await", "fail"}, KillGuest(kind) PROVE HistoryInv'
  BY <1>9, FrameFacts DEF KillGuest, Settle, SessionTypeOK, FrameInv, HistoryInv, HandInv, Busy, Call, Alive
<1>10. ASSUME Shutdown PROVE HistoryInv'
  BY <1>10, FrameFacts DEF Shutdown, SessionTypeOK, FrameInv, HistoryInv, HandInv, Busy, Call, Alive
<1>11. ASSUME HostCrashes PROVE HistoryInv'
  BY <1>11, FrameFacts DEF HostCrashes, SessionTypeOK, FrameInv, HistoryInv, HandInv, Busy, Call, Alive
<1>12. ASSUME NEW g \in Guest, Accept(g) PROVE HistoryInv'
  BY <1>12, FrameFacts DEF Accept, host, SessionTypeOK, FrameInv, HistoryInv, HandInv, Busy, Call, Alive
<1>13. ASSUME NEW g \in Guest, Finish(g) PROVE HistoryInv'
  BY <1>13, FrameFacts DEF Finish, host, history, SessionTypeOK, FrameInv, HistoryInv, HandInv, Busy, Call, Alive
<1>14. ASSUME NEW g \in Guest, Reply(g) PROVE HistoryInv'
  BY <1>14, FrameFacts DEF Reply, host, history, SessionTypeOK, FrameInv, HistoryInv, HandInv, Busy, Call, Alive
<1>15. ASSUME NEW g \in Guest, Leave(g) PROVE HistoryInv'
  BY <1>15, FrameFacts DEF Leave, host, history, SessionTypeOK, FrameInv, HistoryInv, HandInv, Busy, Call, Alive
<1>16. ASSUME NEW g \in Guest, Refuse(g) PROVE HistoryInv'
  BY <1>16, FrameFacts DEF Refuse, host, history, SessionTypeOK, FrameInv, HistoryInv, HandInv, Busy, Call, Alive
<1>17. ASSUME NEW g \in Guest, Crash(g) PROVE HistoryInv'
  BY <1>17, FrameFacts DEF Crash, host, SessionTypeOK, FrameInv, HistoryInv, HandInv, Busy, Call, Alive
<1>18. ASSUME NEW g \in Guest, Steal(g) PROVE HistoryInv'
  BY <1>18, FrameFacts DEF Steal, host, history, SessionTypeOK, FrameInv, HistoryInv, HandInv, Busy, Call, Alive
<1>19. CASE UNCHANGED vars
  BY <1>19 DEF vars, host, guests, history, SessionTypeOK, FrameInv, HistoryInv, HandInv, Busy, Call, Alive
<1>. QED
  BY <1>1, <1>2, <1>3, <1>4, <1>5, <1>6, <1>7, <1>8, <1>9, <1>10, <1>11, <1>12, <1>13, <1>14, <1>15, <1>16, <1>17, <1>18, <1>19
     DEF Next, HostStep, GuestStep, EnsureStarted, Expire, Fail

\* The call in hand is in one place.
LEMMA HandNext ==
    ASSUME SessionTypeOK, FrameInv, TaskInv, HistoryInv, HandInv, LeftInv, [Next]_vars
    PROVE  HandInv'
<1>1. ASSUME Begin PROVE HandInv'
  <2>1. call' = call + 1 /\ call' \in Call /\ call' > call /\ step' = "start"
    BY <1>1, HostAssumption DEF Begin, SessionTypeOK, Call
  <2>2. answer'[call'] = "none" /\ evaluated'[call'] = 0
    BY <1>1, <2>1 DEF Begin, history, HistoryInv
  <2>3. \A g \in Guest : request'[g] # Frame(call')
    <3>. SUFFICES ASSUME NEW g \in Guest, request'[g] = Frame(call') PROVE FALSE
      OBVIOUS
    <3>1. request[g] = Frame(call')
      BY <1>1 DEF Begin, guests
    <3>2. call' <= call
      BY <2>1, <3>1 DEF FrameInv
    <3>. QED
      BY <2>1, <3>2 DEF SessionTypeOK
  <2>4. step = "idle" /\ UNCHANGED <<proc, state, request, reply, piped>>
    BY <1>1 DEF Begin, guests
  <2>. QED
    BY <2>1, <2>2, <2>3, <2>4 DEF HandInv, Alive
<1>2. ASSUME EnsureStarted, Alive(proc) PROVE HandInv'
  BY <1>2, FrameFacts DEF EnsureStarted, SpawnAs, guests, history, SessionTypeOK, FrameInv, TaskInv, HistoryInv, HandInv, LeftInv, Busy, Call, Alive
<1>3. ASSUME NEW g \in Guest, step = "start", ~Alive(proc), SpawnAs(g) PROVE HandInv'
  BY <1>3, FrameFacts DEF SpawnAs, history, SessionTypeOK, FrameInv, TaskInv, HistoryInv, HandInv, LeftInv, Busy, Call, Alive
<1>4. ASSUME step = "start", ~Alive(proc), step' = "fail", UNCHANGED <<proc, call, late, guests, history>> PROVE HandInv'
  BY <1>4, FrameFacts DEF guests, history, SessionTypeOK, FrameInv, TaskInv, HistoryInv, HandInv, LeftInv, Busy, Call, Alive
<1>5. ASSUME Send PROVE HandInv'
  BY <1>5, FrameFacts DEF Send, history, SessionTypeOK, FrameInv, TaskInv, HistoryInv, HandInv, LeftInv, Busy, Call, Alive
<1>6. ASSUME Receive PROVE HandInv'
  BY <1>6, FrameFacts DEF Receive, SessionTypeOK, FrameInv, TaskInv, HistoryInv, HandInv, LeftInv, Busy, Call, Alive
<1>7. ASSUME EndOfFile PROVE HandInv'
  BY <1>7, FrameFacts DEF EndOfFile, guests, history, SessionTypeOK, FrameInv, TaskInv, HistoryInv, HandInv, LeftInv, Busy, Call, Alive
<1>8. ASSUME Tick PROVE HandInv'
  BY <1>8, FrameFacts DEF Tick, guests, history, SessionTypeOK, FrameInv, TaskInv, HistoryInv, HandInv, LeftInv, Busy, Call, Alive
<1>9. ASSUME NEW kind \in {"timeout", "failed"}, step \in {"await", "fail"}, KillGuest(kind) PROVE HandInv'
  BY <1>9, FrameFacts, HostAssumption DEF KillGuest, Settle, SessionTypeOK, FrameInv, TaskInv, HistoryInv, HandInv, LeftInv, Busy, Call, Alive
<1>10. ASSUME Shutdown PROVE HandInv'
  BY <1>10, FrameFacts, HostAssumption DEF Shutdown, SessionTypeOK, FrameInv, TaskInv, HistoryInv, HandInv, LeftInv, Busy, Call, Alive
<1>11. ASSUME HostCrashes PROVE HandInv'
  BY <1>11, FrameFacts, HostAssumption DEF HostCrashes, SessionTypeOK, FrameInv, TaskInv, HistoryInv, HandInv, LeftInv, Busy, Call, Alive
<1>12. ASSUME NEW g \in Guest, Accept(g) PROVE HandInv'
  BY <1>12, FrameFacts DEF Accept, host, SessionTypeOK, FrameInv, TaskInv, HistoryInv, HandInv, LeftInv, Busy, Call, Alive
<1>13. ASSUME NEW g \in Guest, Finish(g) PROVE HandInv'
  BY <1>13, FrameFacts DEF Finish, host, history, SessionTypeOK, FrameInv, TaskInv, HistoryInv, HandInv, LeftInv, Busy, Call, Alive
<1>14. ASSUME NEW g \in Guest, Reply(g) PROVE HandInv'
  BY <1>14, FrameFacts DEF Reply, host, history, SessionTypeOK, FrameInv, TaskInv, HistoryInv, HandInv, LeftInv, Busy, Call, Alive
<1>15. ASSUME NEW g \in Guest, Leave(g) PROVE HandInv'
  BY <1>15, FrameFacts DEF Leave, host, history, SessionTypeOK, FrameInv, TaskInv, HistoryInv, HandInv, LeftInv, Busy, Call, Alive
<1>16. ASSUME NEW g \in Guest, Refuse(g) PROVE HandInv'
  BY <1>16, FrameFacts DEF Refuse, host, history, SessionTypeOK, FrameInv, TaskInv, HistoryInv, HandInv, LeftInv, Busy, Call, Alive
<1>17. ASSUME NEW g \in Guest, Crash(g) PROVE HandInv'
  BY <1>17, FrameFacts DEF Crash, host, SessionTypeOK, FrameInv, TaskInv, HistoryInv, HandInv, LeftInv, Busy, Call, Alive
<1>18. ASSUME NEW g \in Guest, Steal(g) PROVE HandInv'
  BY <1>18, FrameFacts DEF Steal, host, history, SessionTypeOK, FrameInv, TaskInv, HistoryInv, HandInv, LeftInv, Busy, Call, Alive
<1>19. CASE UNCHANGED vars
  BY <1>19 DEF vars, host, guests, history, SessionTypeOK, FrameInv, TaskInv, HistoryInv, HandInv, LeftInv, Busy, Call, Alive
<1>. QED
  BY <1>1, <1>2, <1>3, <1>4, <1>5, <1>6, <1>7, <1>8, <1>9, <1>10, <1>11, <1>12, <1>13, <1>14, <1>15, <1>16, <1>17, <1>18, <1>19
     DEF Next, HostStep, GuestStep, EnsureStarted, Expire, Fail

\* A guest leaves the host alive only when the host dies.
LEMMA LeftNext ==
    ASSUME SessionTypeOK, FrameInv, TaskInv, HandInv, LeftInv, [Next]_vars
    PROVE  LeftInv'
<1>1. ASSUME Begin PROVE LeftInv'
  BY <1>1, FrameFacts DEF Begin, guests, history, SessionTypeOK, FrameInv, TaskInv, HandInv, LeftInv, Busy, Call, Alive
<1>2. ASSUME EnsureStarted, Alive(proc) PROVE LeftInv'
  BY <1>2, FrameFacts DEF EnsureStarted, SpawnAs, guests, history, SessionTypeOK, FrameInv, TaskInv, HandInv, LeftInv, Busy, Call, Alive
<1>3. ASSUME NEW g \in Guest, step = "start", ~Alive(proc), SpawnAs(g) PROVE LeftInv'
  BY <1>3, FrameFacts DEF SpawnAs, history, SessionTypeOK, FrameInv, TaskInv, HandInv, LeftInv, Busy, Call, Alive
<1>4. ASSUME step = "start", ~Alive(proc), step' = "fail", UNCHANGED <<proc, call, late, guests, history>> PROVE LeftInv'
  BY <1>4, FrameFacts DEF guests, history, SessionTypeOK, FrameInv, TaskInv, HandInv, LeftInv, Busy, Call, Alive
<1>5. ASSUME Send PROVE LeftInv'
  BY <1>5, FrameFacts DEF Send, history, SessionTypeOK, FrameInv, TaskInv, HandInv, LeftInv, Busy, Call, Alive
<1>6. ASSUME Receive PROVE LeftInv'
  BY <1>6, FrameFacts DEF Receive, SessionTypeOK, FrameInv, TaskInv, HandInv, LeftInv, Busy, Call, Alive
<1>7. ASSUME EndOfFile PROVE LeftInv'
  BY <1>7, FrameFacts DEF EndOfFile, guests, history, SessionTypeOK, FrameInv, TaskInv, HandInv, LeftInv, Busy, Call, Alive
<1>8. ASSUME Tick PROVE LeftInv'
  BY <1>8, FrameFacts DEF Tick, guests, history, SessionTypeOK, FrameInv, TaskInv, HandInv, LeftInv, Busy, Call, Alive
<1>9. ASSUME NEW kind \in {"timeout", "failed"}, step \in {"await", "fail"}, KillGuest(kind) PROVE LeftInv'
  BY <1>9, FrameFacts DEF KillGuest, Settle, SessionTypeOK, FrameInv, TaskInv, HandInv, LeftInv, Busy, Call, Alive
<1>10. ASSUME Shutdown PROVE LeftInv'
  BY <1>10, FrameFacts DEF Shutdown, SessionTypeOK, FrameInv, TaskInv, HandInv, LeftInv, Busy, Call, Alive
<1>11. ASSUME HostCrashes PROVE LeftInv'
  BY <1>11, FrameFacts DEF HostCrashes, SessionTypeOK, FrameInv, TaskInv, HandInv, LeftInv, Busy, Call, Alive
<1>12. ASSUME NEW g \in Guest, Accept(g) PROVE LeftInv'
  BY <1>12, FrameFacts DEF Accept, host, SessionTypeOK, FrameInv, TaskInv, HandInv, LeftInv, Busy, Call, Alive
<1>13. ASSUME NEW g \in Guest, Finish(g) PROVE LeftInv'
  BY <1>13, FrameFacts DEF Finish, host, history, SessionTypeOK, FrameInv, TaskInv, HandInv, LeftInv, Busy, Call, Alive
<1>14. ASSUME NEW g \in Guest, Reply(g) PROVE LeftInv'
  BY SMTT(30), <1>14, FrameFacts DEF Reply, host, history, SessionTypeOK, FrameInv, TaskInv, HandInv, LeftInv, Busy, Call, Alive
<1>15. ASSUME NEW g \in Guest, Leave(g) PROVE LeftInv'
  BY <1>15, FrameFacts DEF Leave, host, history, SessionTypeOK, FrameInv, TaskInv, HandInv, LeftInv, Busy, Call, Alive
<1>16. ASSUME NEW g \in Guest, Refuse(g) PROVE LeftInv'
  BY <1>16, FrameFacts DEF Refuse, host, history, SessionTypeOK, FrameInv, TaskInv, HandInv, LeftInv, Busy, Call, Alive
<1>17. ASSUME NEW g \in Guest, Crash(g) PROVE LeftInv'
  BY <1>17, FrameFacts DEF Crash, host, SessionTypeOK, FrameInv, TaskInv, HandInv, LeftInv, Busy, Call, Alive
<1>18. ASSUME NEW g \in Guest, Steal(g) PROVE LeftInv'
  BY SMTT(30), <1>18, FrameFacts DEF Steal, host, history, SessionTypeOK, FrameInv, TaskInv, HandInv, LeftInv, Busy, Call, Alive
<1>19. CASE UNCHANGED vars
  BY <1>19 DEF vars, host, guests, history, SessionTypeOK, FrameInv, TaskInv, HandInv, LeftInv, Busy, Call, Alive
<1>. QED
  BY <1>1, <1>2, <1>3, <1>4, <1>5, <1>6, <1>7, <1>8, <1>9, <1>10, <1>11, <1>12, <1>13, <1>14, <1>15, <1>16, <1>17, <1>18, <1>19
     DEF Next, HostStep, GuestStep, EnsureStarted, Expire, Fail

\* A session only grows.
LEMMA MemoryNext ==
    ASSUME SessionTypeOK, FrameInv, HandInv, MemoryInv, [Next]_vars
    PROVE  MemoryInv'
<1>1. ASSUME Begin PROVE MemoryInv'
  BY <1>1, FrameFacts DEF Begin, guests, history, SessionTypeOK, FrameInv, HandInv, MemoryInv, Busy, Call, Alive
<1>2. ASSUME EnsureStarted, Alive(proc) PROVE MemoryInv'
  BY <1>2, FrameFacts DEF EnsureStarted, SpawnAs, guests, history, SessionTypeOK, FrameInv, HandInv, MemoryInv, Busy, Call, Alive
<1>3. ASSUME NEW g \in Guest, step = "start", ~Alive(proc), SpawnAs(g) PROVE MemoryInv'
  BY <1>3, FrameFacts DEF SpawnAs, history, SessionTypeOK, FrameInv, HandInv, MemoryInv, Busy, Call, Alive
<1>4. ASSUME step = "start", ~Alive(proc), step' = "fail", UNCHANGED <<proc, call, late, guests, history>> PROVE MemoryInv'
  BY <1>4, FrameFacts DEF guests, history, SessionTypeOK, FrameInv, HandInv, MemoryInv, Busy, Call, Alive
<1>5. ASSUME Send PROVE MemoryInv'
  BY <1>5, FrameFacts DEF Send, history, SessionTypeOK, FrameInv, HandInv, MemoryInv, Busy, Call, Alive
<1>6. ASSUME Receive PROVE MemoryInv'
  BY <1>6, FrameFacts DEF Receive, SessionTypeOK, FrameInv, HandInv, MemoryInv, Busy, Call, Alive
<1>7. ASSUME EndOfFile PROVE MemoryInv'
  BY <1>7, FrameFacts DEF EndOfFile, guests, history, SessionTypeOK, FrameInv, HandInv, MemoryInv, Busy, Call, Alive
<1>8. ASSUME Tick PROVE MemoryInv'
  BY <1>8, FrameFacts DEF Tick, guests, history, SessionTypeOK, FrameInv, HandInv, MemoryInv, Busy, Call, Alive
<1>9. ASSUME NEW kind \in {"timeout", "failed"}, step \in {"await", "fail"}, KillGuest(kind) PROVE MemoryInv'
  BY <1>9, FrameFacts DEF KillGuest, Settle, SessionTypeOK, FrameInv, HandInv, MemoryInv, Busy, Call, Alive
<1>10. ASSUME Shutdown PROVE MemoryInv'
  BY <1>10, FrameFacts DEF Shutdown, SessionTypeOK, FrameInv, HandInv, MemoryInv, Busy, Call, Alive
<1>11. ASSUME HostCrashes PROVE MemoryInv'
  BY <1>11, FrameFacts DEF HostCrashes, SessionTypeOK, FrameInv, HandInv, MemoryInv, Busy, Call, Alive
<1>12. ASSUME NEW g \in Guest, Accept(g) PROVE MemoryInv'
  BY <1>12, FrameFacts DEF Accept, host, SessionTypeOK, FrameInv, HandInv, MemoryInv, Busy, Call, Alive
<1>13. ASSUME NEW g \in Guest, Finish(g) PROVE MemoryInv'
  BY <1>13, FrameFacts DEF Finish, host, history, SessionTypeOK, FrameInv, HandInv, MemoryInv, Busy, Call, Alive
<1>14. ASSUME NEW g \in Guest, Reply(g) PROVE MemoryInv'
  BY <1>14, FrameFacts DEF Reply, host, history, SessionTypeOK, FrameInv, HandInv, MemoryInv, Busy, Call, Alive
<1>15. ASSUME NEW g \in Guest, Leave(g) PROVE MemoryInv'
  BY <1>15, FrameFacts DEF Leave, host, history, SessionTypeOK, FrameInv, HandInv, MemoryInv, Busy, Call, Alive
<1>16. ASSUME NEW g \in Guest, Refuse(g) PROVE MemoryInv'
  BY <1>16, FrameFacts DEF Refuse, host, history, SessionTypeOK, FrameInv, HandInv, MemoryInv, Busy, Call, Alive
<1>17. ASSUME NEW g \in Guest, Crash(g) PROVE MemoryInv'
  BY <1>17, FrameFacts DEF Crash, host, SessionTypeOK, FrameInv, HandInv, MemoryInv, Busy, Call, Alive
<1>18. ASSUME NEW g \in Guest, Steal(g) PROVE MemoryInv'
  BY <1>18, FrameFacts DEF Steal, host, history, SessionTypeOK, FrameInv, HandInv, MemoryInv, Busy, Call, Alive
<1>19. CASE UNCHANGED vars
  BY <1>19 DEF vars, host, guests, history, SessionTypeOK, FrameInv, HandInv, MemoryInv, Busy, Call, Alive
<1>. QED
  BY <1>1, <1>2, <1>3, <1>4, <1>5, <1>6, <1>7, <1>8, <1>9, <1>10, <1>11, <1>12, <1>13, <1>14, <1>15, <1>16, <1>17, <1>18, <1>19
     DEF Next, HostStep, GuestStep, EnsureStarted, Expire, Fail

-----------------------------------------------------------------------------
(* Theorems *)

\* Before the first call there is no guest.
LEMMA InitHolds ==
    ASSUME Init
    PROVE  IInv
<1>1. SessionTypeOK
  <2>1. call \in 0..MaxCalls
    BY HostAssumption DEF Init
  <2>2. request \in [Guest -> Seq(Call)] /\ reply \in [Guest -> Seq(Call)]
    BY FrameFacts DEF Init
  <2>. QED
    BY <2>1, <2>2 DEF Init, SessionTypeOK
<1>2. FrameInv
  BY FrameFacts DEF Init, FrameInv
<1>3. TaskInv
  BY DEF Init, TaskInv, Busy
<1>4. HistoryInv
  BY DEF Init, HistoryInv
<1>5. HandInv
  BY HostAssumption DEF Init, HandInv, Alive
<1>6. LeftInv
  BY DEF Init, LeftInv, Alive
<1>7. MemoryInv
  BY HostAssumption DEF Init, MemoryInv, Alive
<1>. QED
  BY <1>1, <1>2, <1>3, <1>4, <1>5, <1>6, <1>7 DEF IInv

\* Whatever crashes, whatever is stolen, refused or late, a call is in one place, and
\* only guests of hosts that died evaluate anything else.
THEOREM SessionInvariance == Spec => []IInv
<1>1. Init => IInv
  BY InitHolds
<1>2. IInv /\ [Next]_vars => IInv'
  <2>. SUFFICES ASSUME IInv, [Next]_vars PROVE IInv'
    OBVIOUS
  <2>. USE DEF IInv
  <2>1. SessionTypeOK'
    BY TypesNext
  <2>2. FrameInv'
    BY FrameNext
  <2>3. TaskInv'
    BY TaskNext
  <2>4. HistoryInv'
    BY HistoryNext
  <2>5. HandInv'
    BY HandNext
  <2>6. LeftInv'
    BY LeftNext
  <2>7. MemoryInv'
    BY MemoryNext
  <2>. QED
    BY <2>1, <2>2, <2>3, <2>4, <2>5, <2>6, <2>7
<1>. QED
  BY <1>1, <1>2, PTL DEF Spec

\* The variables keep their types.
THEOREM SessionTypes == Spec => []SessionTypeOK
<1>1. IInv => SessionTypeOK
  BY DEF IInv
<1>. QED
  BY <1>1, SessionInvariance, PTL

\* eval() answers a call with the result of that call, which was evaluated once.
THEOREM AnswersBelong == Spec => []AnswersAreOwn
<1>1. IInv => AnswersAreOwn
  BY DEF IInv, HistoryInv, AnswersAreOwn
<1>. QED
  BY <1>1, SessionInvariance, PTL

\* A guest evaluates the call in hand, or one whose host died.
THEOREM EvaluationsAreAlone == Spec => []OneCallEvaluates
<1>1. IInv => OneCallEvaluates
  <2>. SUFFICES ASSUME IInv, NEW g \in Guest, Busy(g)
                PROVE  \/ g = proc /\ step = "await" /\ task[g] = call
                       \/ answer[task[g]] = "nobody"
    BY DEF OneCallEvaluates, Busy
  <2>1. Alive(g) /\ state[g] \notin {"reading", "dead"}
    BY DEF Busy, Alive
  <2>2. CASE g = proc
    BY <2>1, <2>2 DEF IInv, HandInv, SessionTypeOK
  <2>3. CASE g # proc
    BY <2>1, <2>3 DEF IInv, LeftInv
  <2>. QED
    BY <2>2, <2>3
<1>. QED
  BY <1>1, SessionInvariance, PTL

\* A call is evaluated in a session that has everything the client may count on.
THEOREM SessionsLast == Spec => []BindingsLast
<1>1. IInv => BindingsLast
  BY DEF IInv, HandInv, MemoryInv, Alive, BindingsLast
<1>. QED
  BY <1>1, SessionInvariance, PTL

\* No call meets another: neither its answer nor its evaluation (eval).
THEOREM CallsStayApart == Spec => []CallsAreApart
BY AnswersBelong, EvaluationsAreAlone, PTL DEF CallsAreApart

=============================================================================
