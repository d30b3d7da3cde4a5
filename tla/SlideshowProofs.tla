--------------------------- MODULE SlideshowProofs ---------------------------
(***************************************************************************)
(* Theorems about Slideshow, for any number of pictures, any set of keys,  *)
(* any queue and whatever ev[] holds at first.                             *)
(***************************************************************************)
EXTENDS Slideshow, TLAPS, SequenceTheorems

\* A thread owns play_mut exactly between its lock and its unlock.
Owners == /\ play_mut = "player"   <=> ppc \in {"test", "else", "unlock"}
          /\ play_mut = "keyboard" <=> kpc \in {"store", "unlock"}

\* The player holds an answer that lets the next picture begin.
Cleared == ppc \in {"unlock", "return"} /\ answer # 0

\* A pause lets one picture through only if its answer was read before.
LateInv == /\ late <= 1
           /\ flag_play = 1 => late = 0
           /\ late = 1 => ~Cleared

\* A thread exists only once main has created it.
Born == /\ kpc # "unborn" => mpc \in {"create_player", "join"}
        /\ ppc # "unborn" => mpc = "join"

\* Between the two comparisons the first still fails, and the second will hold.
BetweenTests == ppc = "else" => flag_play = 0

IInv == TypeOK /\ Born /\ Owners /\ BetweenTests /\ AnswerIsCurrent /\ LateInv

-----------------------------------------------------------------------------

\* What the kernel queues for one key transition is a sequence of events.
LEMMA PacketType ==
  ASSUME NEW k \in Keys, NEW v \in 0 .. 2
  PROVE  Packet(k, v) \in Seq(Event)
BY KeysAssumption DEF Packet, Event, EV_MSC, EV_KEY, EV_SYN

\* A read() leaves the rest of the queue a sequence of events.
LEMMA RestType ==
  ASSUME NEW q \in Seq(Event), NEW n \in Nat
  PROVE  SubSeq(q, n + 1, Len(q)) \in Seq(Event)
OBVIOUS

LEMMA TypeInit == Init => TypeOK
BY SlidesAssumption, GarbageAssumption
   DEF Init, TypeOK

LEMMA SafeInit == Init => IInv
BY TypeInit DEF Init, IInv, Born, Owners, BetweenTests, Cleared, AnswerIsCurrent, LateInv

\* main's steps and the kernel's touch none of the shared data.
LEMMA MainSafe == IInv /\ Main => IInv'
<1> SUFFICES ASSUME IInv, Main PROVE IInv'
  OBVIOUS
<1> USE DEF IInv, TypeOK, Born, Owners, BetweenTests, Cleared, AnswerIsCurrent, LateInv,
            kbVars, plVars, histVars
<1>1. CASE MainInitFb
  BY <1>1 DEF MainInitFb
<1>2. CASE MainCreateKeyboard
  BY <1>2 DEF MainCreateKeyboard
<1>3. CASE MainCreatePlayer
  BY <1>3 DEF MainCreatePlayer
<1>4. CASE MainJoinsNobody
  BY <1>4 DEF MainJoinsNobody
<1> QED
  BY <1>1, <1>2, <1>3, <1>4 DEF Main

LEMMA KeySafe ==
  ASSUME NEW k \in Keys, NEW v \in 0 .. 2
  PROVE  IInv /\ Key(k, v) => IInv'
<1> SUFFICES ASSUME IInv, Key(k, v) PROVE IInv'
  OBVIOUS
<1>1. queue' \in Seq(Event)
  BY PacketType, ConcatProperties DEF IInv, TypeOK, Key
<1> QED
  BY <1>1 DEF IInv, TypeOK, Born, Owners, BetweenTests, Cleared, AnswerIsCurrent, LateInv,
              kbVars, plVars, histVars, Key

\* read() leaves in ev[] events of the queue or what was there before.
LEMMA KbReadSafe == IInv /\ KbRead => IInv'
<1> SUFFICES ASSUME IInv, KbRead PROVE IInv'
  OBVIOUS
<1>1. PICK n \in ReadSizes :
        /\ rd' = n
        /\ ev' = [i \in {0, 1} |-> IF i < n THEN queue[i + 1] ELSE ev[i]]
        /\ queue' = SubSeq(queue, n + 1, Len(queue))
  BY DEF KbRead
<1>2. n \in 1 .. Len(queue)
  <2>1. Len(queue) \in Nat /\ Len(queue) # 0
    BY DEF KbRead, IInv, TypeOK
  <2> QED
    BY <2>1, BoundsAssumption DEF ReadSizes
<1>3. queue' \in Seq(Event)
  BY <1>1, <1>2, RestType DEF IInv, TypeOK
<1>4. ev' \in [{0, 1} -> Event]
  BY <1>1, <1>2 DEF IInv, TypeOK
<1> QED
  BY <1>1, <1>2, <1>3, <1>4
     DEF IInv, TypeOK, Born, Owners, BetweenTests, Cleared, AnswerIsCurrent, LateInv,
         plVars, histVars, KbRead

LEMMA KeyboardSafe == IInv /\ Keyboard => IInv'
<1> SUFFICES ASSUME IInv, Keyboard PROVE IInv'
  OBVIOUS
<1>1. CASE KbRead
  BY <1>1, KbReadSafe
<1> USE DEF IInv, TypeOK, Born, Owners, BetweenTests, Cleared, AnswerIsCurrent, LateInv,
            kbVars, plVars, histVars
<1>2. CASE KbOpen
  BY <1>2 DEF KbOpen
<1>3. CASE KbReadFails
  BY <1>3 DEF KbReadFails
<1>4. CASE KbLock
  BY <1>4 DEF KbLock
<1>5. CASE KbStore
  BY <1>5 DEF KbStore, Commanded
<1>6. CASE KbUnlock
  BY <1>6 DEF KbUnlock
<1> QED
  BY <1>1, <1>2, <1>3, <1>4, <1>5, <1>6 DEF Keyboard

LEMMA PlayerSafe == IInv /\ Player => IInv'
<1> SUFFICES ASSUME IInv, Player PROVE IInv'
  OBVIOUS
<1> USE DEF IInv, TypeOK, Born, Owners, BetweenTests, Cleared, AnswerIsCurrent, LateInv,
            kbVars, plVars, histVars
<1>1. CASE PlShow
  BY <1>1 DEF PlShow
<1>2. CASE PlShowFails
  BY <1>2 DEF PlShowFails
<1>3. CASE PlSleep
  BY <1>3 DEF PlSleep
<1>4. CASE PlLock
  BY <1>4 DEF PlLock
<1>5. CASE PlTest
  BY <1>5 DEF PlTest
<1>6. CASE PlUnlock
  BY <1>6 DEF PlUnlock
<1>7. CASE PlReturn
  BY <1>7, SlidesAssumption DEF PlReturn, NextSlide, OneMore
<1>8. CASE PlTestElse
  BY <1>8 DEF PlTestElse
<1> QED
  BY <1>1, <1>2, <1>3, <1>4, <1>5, <1>6, <1>7, <1>8 DEF Player

LEMMA SafeStep == IInv /\ [Next]_vars => IInv'
<1> SUFFICES ASSUME IInv, [Next]_vars PROVE IInv'
  OBVIOUS
<1>1. CASE Main
  BY <1>1, MainSafe
<1>2. CASE Keyboard
  BY <1>2, KeyboardSafe
<1>3. CASE Player
  BY <1>3, PlayerSafe
<1>4. CASE \E k \in Keys, v \in 0 .. 2 : Key(k, v)
  BY <1>4, KeySafe
<1>5. CASE Ended \/ UNCHANGED vars
  BY <1>5 DEF Ended, vars, kbVars, plVars, histVars, IInv, TypeOK, Born, Owners,
              BetweenTests, Cleared, AnswerIsCurrent, LateInv
<1>6. CASE Killed
  BY <1>6 DEF Killed, kbVars, plVars, histVars, IInv, TypeOK, Born, Owners,
              BetweenTests, Cleared, AnswerIsCurrent, LateInv
<1> QED
  BY <1>1, <1>2, <1>3, <1>4, <1>5, <1>6 DEF Next

\* Types, ownership of play_mut, and the account of pictures begun in a pause
\* hold in every reachable state.
THEOREM Inductive == Spec => []IInv
<1>1. Init => IInv
  BY SafeInit
<1>2. IInv /\ [Next]_vars => IInv'
  BY SafeStep
<1> QED
  BY <1>1, <1>2, PTL DEF Spec

\* Every variable has its type.
THEOREM TypeCorrect == Spec => []TypeOK
<1>1. IInv => TypeOK
  BY DEF IInv
<1> QED
  BY <1>1, Inductive, PTL

\* The answer is_play is about to return is the value of flag_play.
THEOREM AnswerCurrent == Spec => []AnswerIsCurrent
<1>1. IInv => AnswerIsCurrent
  BY DEF IInv
<1> QED
  BY <1>1, Inductive, PTL

\* At most one picture begins in a pause, however the threads interleave.
THEOREM PauseStops == Spec => []PauseStopsShow
<1>1. IInv => PauseStopsShow
  BY DEF IInv, LateInv, PauseStopsShow
<1> QED
  BY <1>1, Inductive, PTL

-----------------------------------------------------------------------------
(* The show implements PauseControl                                        *)

LEMMA RefinesInit == Init => PC!PCInit
BY DEF Init, PC!PCInit, Stage, running

\* A step of main or of the kernel begins the first picture, ends the process
\* or is invisible.
LEMMA MainRefines == IInv /\ Main => [PC!PCNext]_(PC!pcVars)
<1> SUFFICES ASSUME IInv, Main PROVE [PC!PCNext]_(PC!pcVars)
  OBVIOUS
<1> USE DEF kbVars, plVars, histVars, running, Stage, PC!PCNext, PC!pcVars
<1>1. CASE MainInitFb
  BY <1>1 DEF MainInitFb, PC!Stop, IInv, TypeOK
<1>2. CASE MainCreateKeyboard
  BY <1>2 DEF MainCreateKeyboard
<1>3. CASE MainCreatePlayer
  BY <1>3 DEF MainCreatePlayer, PC!Begin, IInv, Born
<1>4. CASE MainJoinsNobody
  BY <1>4 DEF MainJoinsNobody, PC!Stop
<1> QED
  BY <1>1, <1>2, <1>3, <1>4 DEF Main

\* The keyboard thread's store sets the mode; its other steps are invisible,
\* but for a failed read().
LEMMA KeyboardRefines == IInv /\ Keyboard => [PC!PCNext]_(PC!pcVars)
<1> SUFFICES ASSUME IInv, Keyboard PROVE [PC!PCNext]_(PC!pcVars)
  OBVIOUS
<1> USE DEF kbVars, plVars, histVars, running, Stage, PC!PCNext, PC!pcVars
<1>1. CASE KbRead
  BY <1>1 DEF KbRead
<1>2. CASE KbOpen
  BY <1>2 DEF KbOpen
<1>3. CASE KbReadFails
  BY <1>3 DEF KbReadFails, PC!Stop
<1>4. CASE KbLock
  BY <1>4 DEF KbLock
<1>5. CASE KbStore
  BY <1>5 DEF KbStore, Commanded, PC!SetMode
<1>6. CASE KbUnlock
  BY <1>6 DEF KbUnlock
<1> QED
  BY <1>1, <1>2, <1>3, <1>4, <1>5, <1>6 DEF Keyboard

\* The picture is finished by PlShow, the gate cleared by PlTest when it finds
\* play mode, and the next picture begun by PlReturn.
LEMMA PlayerRefines == IInv /\ Player => [PC!PCNext]_(PC!pcVars)
<1> SUFFICES ASSUME IInv, Player PROVE [PC!PCNext]_(PC!pcVars)
  OBVIOUS
<1> USE DEF kbVars, plVars, histVars, running, Stage, PC!PCNext, PC!pcVars
<1>1. CASE PlShow
  BY <1>1 DEF PlShow, PC!Finish
<1>2. CASE PlShowFails
  BY <1>2 DEF PlShowFails, PC!Stop
<1>3. CASE PlSleep
  BY <1>3 DEF PlSleep
<1>4. CASE PlLock
  BY <1>4 DEF PlLock
<1>5. CASE PlTest
  BY <1>5 DEF PlTest, PC!Clear
<1>6. CASE PlUnlock
  BY <1>6 DEF PlUnlock
<1>7. CASE PlReturn
  BY <1>7 DEF PlReturn, NextSlide, PC!Advance
<1>8. CASE PlTestElse
  BY <1>8 DEF PlTestElse, IInv, BetweenTests
<1> QED
  BY <1>1, <1>2, <1>3, <1>4, <1>5, <1>6, <1>7, <1>8 DEF Player

\* The threads, the mutex and the input queue together do nothing that the
\* abstract pause control does not allow.
THEOREM Refinement == Spec => ImplementsPauseControl
<1>1. Init => PC!PCInit
  BY RefinesInit
<1>2. IInv /\ [Next]_vars => [PC!PCNext]_(PC!pcVars)
  <2> SUFFICES ASSUME IInv, [Next]_vars PROVE [PC!PCNext]_(PC!pcVars)
    OBVIOUS
  <2>1. CASE Main
    BY <2>1, MainRefines
  <2>2. CASE Keyboard
    BY <2>2, KeyboardRefines
  <2>3. CASE Player
    BY <2>3, PlayerRefines
  <2>4. CASE \E k \in Keys, v \in 0 .. 2 : Key(k, v)
    BY <2>4 DEF Key, kbVars, plVars, running, Stage, PC!pcVars
  <2>5. CASE Ended \/ UNCHANGED vars
    BY <2>5 DEF Ended, vars, plVars, running, Stage, PC!pcVars
  <2>6. CASE Killed
    BY <2>6 DEF Killed, plVars, running, Stage, PC!PCNext, PC!pcVars, PC!Stop
  <2> QED
    BY <2>1, <2>2, <2>3, <2>4, <2>5, <2>6 DEF Next
<1> QED
  BY <1>1, <1>2, Inductive, PTL DEF Spec, ImplementsPauseControl, PC!PCSafeSpec

-----------------------------------------------------------------------------
(* The press that reaches an empty queue decides                           *)

\* What flag_play will be once the command in hand, if any, is carried out.
Settled == IF kpc \in {"lock", "store"} THEN Commanded(ev) ELSE flag_play

\* The queue begins with a packet.  Either that packet is the leading press or
\* it changes nothing, and then the press before it is already settled.
Heads(k, v) == /\ Len(queue) >= 3
               /\ queue[1] = Packet(k, v)[1]
               /\ queue[2] = Packet(k, v)[2]
               /\ IF v = 1 /\ k \in {KEY_E, KEY_S}
                    THEN lead = k
                    ELSE Settled = Asked(lead)

QueueInv == /\ Len(queue) <= QueueCap
            /\ queue = <<>> => Settled = Asked(lead)
            /\ queue # <<>> => \E k \in Keys, v \in 0 .. 2 : Heads(k, v)

LEMMA QueueInit == Init => QueueInv
BY BoundsAssumption
   DEF Init, QueueInv, Settled, Asked, KEY_E

LEMMA KeyQueue ==
  ASSUME NEW k \in Keys, NEW v \in 0 .. 2, IInv, QueueInv, Key(k, v)
  PROVE  QueueInv'
<1> DEFINE p == Packet(k, v)
<1>1. p \in Seq(Event) /\ Len(p) = 3
  BY PacketType DEF Packet
<1>2. queue \in Seq(Event) /\ Len(queue) \in Nat
  BY DEF IInv, TypeOK
<1>3. /\ Len(queue') = Len(queue) + 3
      /\ \A i \in 1 .. Len(queue) + 3 :
           queue'[i] = IF i <= Len(queue) THEN queue[i] ELSE p[i - Len(queue)]
  <2> HIDE DEF p
  <2>1. queue' = queue \o p
    BY DEF Key, p
  <2>2. /\ Len(queue \o p) = Len(queue) + Len(p)
        /\ \A i \in 1 .. Len(queue) + Len(p) :
             (queue \o p)[i] = IF i <= Len(queue) THEN queue[i] ELSE p[i - Len(queue)]
    BY <1>1, <1>2, ConcatProperties
  <2> QED
    BY <1>1, <2>1, <2>2
<1>4. Len(queue') <= QueueCap /\ queue' # <<>>
  BY <1>2, <1>3 DEF Key
<1>5. Settled' = Settled
  BY DEF Key, kbVars, Settled, Commanded
<1>6. CASE queue = <<>>
  <2>1. queue'[1] = p[1] /\ queue'[2] = p[2] /\ Len(queue') >= 3
    BY <1>2, <1>3, <1>6
  <2>2. lead' = IF v = 1 /\ k \in {KEY_E, KEY_S} THEN k ELSE lead
    BY <1>6 DEF Key
  <2>3. Heads(k, v)'
    BY <2>1, <2>2, <1>5, <1>6 DEF Heads, QueueInv, Asked
  <2> QED
    BY <2>3, <1>4 DEF QueueInv
<1>7. CASE queue # <<>>
  <2>1. PICK j \in Keys, w \in 0 .. 2 : Heads(j, w)
    BY <1>7 DEF QueueInv
  <2>2. /\ Len(queue') >= 3
        /\ queue'[1] = queue[1] /\ queue'[2] = queue[2]
    BY <1>2, <1>3, <2>1 DEF Heads
  <2>3. lead' = lead
    BY <1>7 DEF Key
  <2>4. Heads(j, w)'
    BY <2>1, <2>2, <2>3, <1>5 DEF Heads, Asked
  <2> QED
    BY <2>4, <1>4 DEF QueueInv
<1> QED
  BY <1>6, <1>7

\* One read() takes everything, and ev[0] and ev[1] are the leading packet's.
LEMMA ReadQueue ==
  ASSUME WholeReads, IInv, QueueInv, KbRead
  PROVE  QueueInv'
<1>1. queue \in Seq(Event) /\ Len(queue) \in Nat /\ queue # <<>>
  BY DEF IInv, TypeOK, KbRead
<1>2. PICK k \in Keys, v \in 0 .. 2 : Heads(k, v)
  BY <1>1 DEF QueueInv
<1>3. ReadSizes = {Len(queue)}
  BY <1>1, BoundsAssumption DEF ReadSizes, WholeReads, QueueInv
<1>4. /\ ev' = [i \in {0, 1} |-> IF i < Len(queue) THEN queue[i + 1] ELSE ev[i]]
      /\ queue' = SubSeq(queue, Len(queue) + 1, Len(queue))
      /\ kpc' = IF IsCommand(ev') THEN "lock" ELSE "read"
      /\ kpc = "read" /\ lead' = lead /\ flag_play' = flag_play
  BY <1>3 DEF KbRead, histVars
<1>5. queue' = <<>>
  BY <1>1, <1>4, SubSeqEmpty
<1>6. Len(queue') <= QueueCap
  BY <1>5, BoundsAssumption
<1>7. ev'[0] = Packet(k, v)[1] /\ ev'[1] = Packet(k, v)[2]
  BY <1>1, <1>2, <1>4 DEF Heads
<1>8. /\ ev'[0].value = k
      /\ ev'[1].type = EV_KEY /\ ev'[1].code = k /\ ev'[1].value = v
  BY <1>7 DEF Packet
<1>9. CASE v = 1 /\ k \in {KEY_E, KEY_S}
  <2>1. kpc' = "lock"
    BY <1>4, <1>8, <1>9 DEF IsCommand, KEY_E, KEY_S, SPACE
  <2>2. Settled' = Asked(lead')
    BY <2>1, <1>2, <1>4, <1>8, <1>9
       DEF Settled, Commanded, Asked, Heads, KEY_E, KEY_S
  <2> QED
    BY <2>2, <1>5, <1>6 DEF QueueInv
<1>10. CASE ~(v = 1 /\ k \in {KEY_E, KEY_S})
  <2>1. kpc' = "read"
    BY <1>4, <1>8, <1>10 DEF IsCommand
  <2>2. Settled' = Asked(lead')
    BY <2>1, <1>2, <1>4, <1>10 DEF Settled, Heads
  <2> QED
    BY <2>2, <1>5, <1>6 DEF QueueInv
<1> QED
  BY <1>9, <1>10

\* A step that leaves the queue alone and settles nothing new.
LEMMA OtherQueue ==
  ASSUME QueueInv, queue' = queue, lead' = lead, Settled' = Settled
  PROVE  QueueInv'
BY DEF QueueInv, Heads, Asked

LEMMA QueueStep == WholeReads /\ IInv /\ QueueInv /\ [Next]_vars => QueueInv'
<1> SUFFICES ASSUME WholeReads, IInv, QueueInv, [Next]_vars PROVE QueueInv'
  OBVIOUS
<1>1. CASE KbRead
  BY <1>1, ReadQueue
<1>2. CASE \E k \in Keys, v \in 0 .. 2 : Key(k, v)
  BY <1>2, KeyQueue
<1>3. CASE Main \/ Player \/ Killed \/ Ended \/ UNCHANGED vars
  <2>1. queue' = queue /\ lead' = lead /\ flag_play' = flag_play /\ ev' = ev
    BY <1>3 DEF Main, MainInitFb, MainCreateKeyboard, MainCreatePlayer,
       MainJoinsNobody, Killed, PlTestElse, Player,
       PlShow, PlShowFails, PlSleep, PlLock, PlTest, PlUnlock, PlReturn,
       Ended, vars, kbVars, plVars, histVars
  <2>2. kpc' \in {"lock", "store"} <=> kpc \in {"lock", "store"}
    BY <1>3 DEF Main, MainInitFb, MainCreateKeyboard, MainCreatePlayer,
       MainJoinsNobody, Killed, PlTestElse, Player,
       PlShow, PlShowFails, PlSleep, PlLock, PlTest, PlUnlock, PlReturn,
       Ended, vars, kbVars, IInv, Born
  <2> QED
    BY <2>1, <2>2, OtherQueue DEF Settled, Commanded
<1>4. CASE KbOpen \/ KbReadFails \/ KbLock \/ KbStore \/ KbUnlock
  <2>1. queue' = queue /\ lead' = lead /\ Settled' = Settled
    BY <1>4 DEF KbOpen, KbReadFails, KbLock, KbStore, KbUnlock,
       kbVars, histVars, Settled, Commanded
  <2> QED
    BY <2>1, OtherQueue
<1> QED
  BY <1>1, <1>2, <1>3, <1>4 DEF Next, Keyboard

\* Where the kernel hands over whole packets and no more of them than one
\* read() takes, flag_play follows the press of E or S that found the queue
\* empty.
THEOREM LeadDecides == Spec => []LeadPressDecides
<1>1. CASE WholeReads
  <2>1. Init => QueueInv
    BY QueueInit
  <2>2. IInv /\ QueueInv /\ [Next]_vars => QueueInv'
    BY <1>1, QueueStep
  <2>3. QueueInv => LeadPressDecides
    BY DEF QueueInv, LeadPressDecides, Settled
  <2> QED
    BY <2>1, <2>2, <2>3, Inductive, PTL DEF Spec
<1>2. CASE ~WholeReads
  <2>1. LeadPressDecides
    BY <1>2 DEF LeadPressDecides
  <2> QED
    BY <2>1, PTL
<1> QED
  BY <1>1, <1>2

-----------------------------------------------------------------------------
(* Only what the stack held in ev[] can act by itself                      *)

\* Read as ev[1], the event is a press of E or S.
Press(e) == e.type = EV_KEY /\ e.value = 1 /\ e.code \in {KEY_E, KEY_S}

\* In the queue, a press of E or S follows its scan code, which is no SPACE.
Chained == \A n \in 1 .. Len(queue) - 1 : Press(queue[n + 1]) => queue[n].value # SPACE

\* A press in ev[1] has been obeyed, unless it was just read.
Obeyed == Press(ev[1]) =>
            flag_play = Commanded(ev) \/ (kpc \in {"lock", "store"} /\ rd >= 2)

InHand == kpc \in {"lock", "store"} => Press(ev[1])

EvInv == Chained /\ Obeyed /\ InHand

\* What ev[] holds before the first read() is no press.
QuietGarbage == \A e \in Garbage : ~Press(e)

LEMMA EvInit == QuietGarbage /\ Init => EvInv
BY DEF QuietGarbage, Init, EvInv, Chained, Obeyed, InHand

LEMMA KeyEv ==
  ASSUME NEW k \in Keys, NEW v \in 0 .. 2, IInv, EvInv, Key(k, v)
  PROVE  EvInv'
<1> DEFINE p == Packet(k, v)
<1>1. p \in Seq(Event) /\ Len(p) = 3
  BY PacketType DEF Packet
<1>2. queue \in Seq(Event) /\ Len(queue) \in Nat
  BY DEF IInv, TypeOK
<1>3. /\ ~Press(p[1]) /\ ~Press(p[3])
      /\ Press(p[2]) => p[1].value # SPACE
  BY DEF Packet, Press, EV_MSC, EV_KEY, EV_SYN, KEY_E, KEY_S, SPACE
<1> HIDE DEF p
<1>4. /\ Len(queue') = Len(queue) + 3
      /\ \A i \in 1 .. Len(queue) + 3 :
           queue'[i] = IF i <= Len(queue) THEN queue[i] ELSE p[i - Len(queue)]
  <2>1. queue' = queue \o p
    BY DEF Key, p
  <2>2. /\ Len(queue \o p) = Len(queue) + Len(p)
        /\ \A i \in 1 .. Len(queue) + Len(p) :
             (queue \o p)[i] = IF i <= Len(queue) THEN queue[i] ELSE p[i - Len(queue)]
    BY <1>1, <1>2, ConcatProperties
  <2> QED
    BY <1>1, <2>1, <2>2
<1>5. Chained'
  <2> SUFFICES ASSUME NEW n \in 1 .. Len(queue) + 2, Press(queue'[n + 1])
               PROVE  queue'[n].value # SPACE
    BY <1>2, <1>4 DEF Chained, Press
  <2>1. CASE n + 1 <= Len(queue)
    BY <2>1, <1>2, <1>4 DEF EvInv, Chained
  <2>2. CASE n = Len(queue) + 1
    BY <2>2, <1>2, <1>3, <1>4
  <2>3. CASE n = Len(queue) \/ n = Len(queue) + 2
    BY <2>3, <1>2, <1>3, <1>4
  <2> QED
    BY <1>2, <2>1, <2>2, <2>3
<1>6. UNCHANGED <<kpc, ev, rd, flag_play>>
  BY DEF Key, kbVars
<1> QED
  BY <1>5, <1>6 DEF EvInv, Obeyed, InHand, Press, Commanded

\* A press that comes with its scan code is a command; one left over from an
\* earlier read() has been obeyed before.
LEMMA ReadEv == IInv /\ EvInv /\ KbRead => EvInv'
<1> SUFFICES ASSUME IInv, EvInv, KbRead PROVE EvInv'
  OBVIOUS
<1>1. PICK n \in ReadSizes :
        /\ rd' = n
        /\ ev' = [i \in {0, 1} |-> IF i < n THEN queue[i + 1] ELSE ev[i]]
        /\ queue' = SubSeq(queue, n + 1, Len(queue))
  BY DEF KbRead
<1>2. /\ queue \in Seq(Event) /\ Len(queue) \in Nat /\ n \in 1 .. Len(queue)
  <2>1. Len(queue) \in Nat /\ Len(queue) # 0 /\ queue \in Seq(Event)
    BY DEF KbRead, IInv, TypeOK
  <2> QED
    BY <2>1, BoundsAssumption DEF ReadSizes
<1>3. /\ kpc = "read" /\ flag_play' = flag_play
      /\ kpc' = IF IsCommand(ev') THEN "lock" ELSE "read"
  BY DEF KbRead
<1>4. Chained'
  <2>1. /\ Len(queue') = Len(queue) - n
        /\ \A i \in 1 .. Len(queue) - n : queue'[i] = queue[i + n]
    BY <1>1, <1>2
  <2> SUFFICES ASSUME NEW m \in 1 .. Len(queue) - n - 1, Press(queue'[m + 1])
               PROVE  queue'[m].value # SPACE
    BY <1>2, <2>1 DEF Chained, Press
  <2>2. /\ m + n \in 1 .. Len(queue) - 1
        /\ queue'[m] = queue[m + n] /\ queue'[m + 1] = queue[(m + n) + 1]
    BY <1>2, <2>1
  <2> QED
    BY <2>2 DEF EvInv, Chained
<1>5. InHand'
  BY <1>3 DEF InHand, IsCommand, Press
<1>6. CASE n >= 2
  <2>1. ev'[0] = queue[1] /\ ev'[1] = queue[1 + 1]
    BY <1>1, <1>2, <1>6
  <2>2. Press(ev'[1]) => ev'[0].value # SPACE
    BY <1>2, <1>6, <2>1 DEF EvInv, Chained
  <2>3. Press(ev'[1]) => kpc' = "lock"
    BY <1>3, <2>2 DEF IsCommand, Press
  <2> QED
    BY <1>1, <1>4, <1>5, <1>6, <2>3 DEF EvInv, Obeyed, Press
<1>7. CASE n = 1
  <2>1. ev'[1] = ev[1]
    BY <1>1, <1>7
  <2>2. Obeyed'
    BY <1>3, <2>1 DEF EvInv, Obeyed, Press, Commanded
  <2> QED
    BY <1>4, <1>5, <2>2 DEF EvInv
<1> QED
  BY <1>2, <1>6, <1>7

LEMMA EvStep == IInv /\ EvInv /\ [Next]_vars => EvInv'
<1> SUFFICES ASSUME IInv, EvInv, [Next]_vars PROVE EvInv'
  OBVIOUS
<1>1. CASE KbRead
  BY <1>1, ReadEv
<1>2. CASE \E k \in Keys, v \in 0 .. 2 : Key(k, v)
  BY <1>2, KeyEv
<1>3. CASE Main \/ Player \/ Killed \/ Ended \/ UNCHANGED vars
  <2>1. UNCHANGED <<queue, flag_play, ev, rd>>
    BY <1>3 DEF Main, MainInitFb, MainCreateKeyboard, MainCreatePlayer,
       MainJoinsNobody, Killed, PlTestElse, Player,
       PlShow, PlShowFails, PlSleep, PlLock, PlTest, PlUnlock, PlReturn,
       Ended, vars, kbVars, plVars, histVars
  <2>2. kpc' \in {"lock", "store"} <=> kpc \in {"lock", "store"}
    BY <1>3 DEF Main, MainInitFb, MainCreateKeyboard, MainCreatePlayer,
       MainJoinsNobody, Killed, PlTestElse, Player,
       PlShow, PlShowFails, PlSleep, PlLock, PlTest, PlUnlock, PlReturn,
       Ended, vars, kbVars, IInv, Born
  <2> QED
    BY <2>1, <2>2 DEF EvInv, Chained, Obeyed, InHand, Press, Commanded
<1>4. CASE KbOpen \/ KbReadFails \/ KbLock \/ KbStore \/ KbUnlock
  BY <1>4 DEF KbOpen, KbReadFails, KbLock, KbStore, KbUnlock,
     kbVars, EvInv, Chained, Obeyed, InHand, Press, Commanded
<1> QED
  BY <1>1, <1>2, <1>3, <1>4 DEF Next, Keyboard

\* Where the stack's own contents of ev[] are no press, flag_play changes only on
\* a batch that brought its own ev[1], even if the kernel splits packets: what
\* keyboard.c:45-62 leaves uninitialized is all that can break the property.
THEOREM ReadEventsDecide == QuietGarbage => (Spec => ActsOnReadEventsOnly)
<1> SUFFICES ASSUME QuietGarbage PROVE Spec => ActsOnReadEventsOnly
  OBVIOUS
<1>1. Init => EvInv
  BY EvInit
<1>2. IInv /\ EvInv /\ [Next]_vars => EvInv'
  BY EvStep
<1>3. IInv /\ EvInv /\ [Next]_vars => [rd >= 2]_flag_play
  <2> SUFFICES ASSUME IInv, EvInv, [Next]_vars, flag_play' # flag_play PROVE rd >= 2
    OBVIOUS
  <2>1. KbStore
    BY DEF Next, Keyboard, Main, MainInitFb, MainCreateKeyboard, MainCreatePlayer,
       MainJoinsNobody, Killed, PlTestElse, Player,
       PlShow, PlShowFails, PlSleep, PlLock, PlTest, PlUnlock, PlReturn,
       KbOpen, KbReadFails, KbRead, KbLock, KbUnlock, Key,
       Ended, vars, kbVars, plVars, histVars
  <2> QED
    BY <2>1 DEF KbStore, EvInv, Obeyed, InHand
<1> QED
  BY <1>1, <1>2, <1>3, Inductive, PTL DEF Spec, ActsOnReadEventsOnly
=============================================================================
