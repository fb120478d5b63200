------------------------- MODULE WolIrcServerProofs -------------------------
(***************************************************************************)
(* The invariants of the lobby server, for every number of connections,    *)
(* every set of nicks and member vectors of any length.                    *)
(***************************************************************************)
EXTENDS WolIrcServer, PointerVectorProofs

USE NoConnAssumption, BoundAssumption, ValueAssumption

\* A search among the live connections finds one of them or nothing.
LEMMA FindLive ==
    ASSUME connections \in Seq(Conn), NEW S
    PROVE  FirstIn(connections, S) = NoConn \/ FirstIn(connections, S) \in Live \cap S
BY SelectProperties DEF FirstIn, Live

\* The live connections are connections.
LEMMA LiveType ==
    ASSUME connections \in Seq(Conn)
    PROVE  Live \subseteq Conn /\ NoConn \notin Live
BY DEF Live, Range

-----------------------------------------------------------------------------
(* The types of the state. *)

\* The parts of StateOK that only some handlers change.
LEMMA EnterType ==
    ASSUME StateOK, NEW c \in Conn, NEW h \in Conn, NEW g, Enter(c, h, g)
    PROVE  /\ members' \in [Conn -> Seq(Conn)]
           /\ channel' \in [Conn -> Conn \cup {NoConn}]
           /\ movers' \in SUBSET Conn
<1>1. members[h] \in Seq(Conn)
  BY DEF StateOK
<1>2. Append(members[h], c) \in Seq(Conn)
  BY <1>1, AppendProperties
<1>3. members' = [members EXCEPT ![h] = Append(members[h], c)]
  BY DEF Enter
<1>4. channel' = [channel EXCEPT ![c] = h]
  BY DEF Enter
<1>5. movers' = IF channel[c] = NoConn THEN movers ELSE movers \cup {c}
  BY DEF Enter
<1> QED BY <1>2, <1>3, <1>4, <1>5 DEF StateOK

\* Game pointers, some of them cleared, are game pointers.
LEMMA LooseType ==
    ASSUME StateOK, NEW S
    PROVE  Loose(S) \in [Conn -> Conn \cup {NoConn}]
BY DEF StateOK, Loose

\* The end of the process keeps the types.
LEMMA DieType ==
    ASSUME StateOK, NEW why \in {"assert", "null", "dangling"}, Die(why)
    PROVE  StateOK'
BY DEF StateOK, Die, connVars, userVars, gameVars

\* The steps of a connection's thread between commands keep the types.
LEMMA ThreadType ==
    ASSUME StateOK, NEW c \in Conn, Thread(c)
    PROVE  StateOK'
<1> USE DEF StateOK, connVars, userVars, gameVars
<1>1. CASE Accept(c)
  <2>1. Append(connections, c) \in Seq(Conn)
    BY AppendProperties
  <2> QED BY <1>1, <2>1 DEF Accept
<1>2. CASE RecvChunk(c)
  BY <1>2 DEF RecvChunk
<1>3. CASE EndChunk(c)
  BY <1>3 DEF EndChunk
<1>4. CASE RecvFail(c)
  BY <1>4 DEF RecvFail
<1>5. CASE Teardown(c)
  <2>1. \A h \in Conn : EraseSkipping(members[h], c) \in Seq(Conn)
    BY EraseSkippingProperties
  <2>2. EraseSkipping(connections, c) \in Seq(Conn)
    BY EraseSkippingProperties
  <2>3. members' \in [Conn -> Seq(Conn)]
    BY <1>5, <2>1 DEF Teardown
  <2>4. channel' \in [Conn -> Conn \cup {NoConn}]
    BY <1>5, LooseType DEF Teardown
  <2> QED BY <1>5, <2>2, <2>3, <2>4 DEF Teardown
<1> QED BY <1>1, <1>2, <1>3, <1>4, <1>5 DEF Thread

\* So do the commands that change at most names and locales.
LEMMA QuietCommandType ==
    ASSUME StateOK, NEW c \in Conn,
           \/ HandleIgnored(c)
           \/ \E code \in FixedReply : HandleFixed(c, code)
           \/ HandleBadLine(c)
           \/ HandleQUIT(c)
           \/ \E n \in Nick : HandleNICK(c, n)
           \/ \E v \in CodePage : HandleSETCODEPAGE(c, v)
           \/ \E v \in Locale : HandleSETLOCALE(c, v)
           \/ HandleLIST(c)
    PROVE  StateOK'
<1>1. CASE HandleBadLine(c)
  BY <1>1, DieType DEF HandleBadLine
<1> USE DEF StateOK, connVars, userVars, gameVars
<1>2. CASE HandleIgnored(c)
  BY <1>2 DEF HandleIgnored
<1>3. CASE \E code \in FixedReply : HandleFixed(c, code)
  BY <1>3 DEF HandleFixed
<1>4. CASE HandleQUIT(c)
  BY <1>4 DEF HandleQUIT
<1>5. CASE \E n \in Nick : HandleNICK(c, n)
  BY <1>5 DEF HandleNICK, Name
<1>6. CASE \E v \in CodePage : HandleSETCODEPAGE(c, v)
  BY <1>6 DEF HandleSETCODEPAGE
<1>7. CASE \E v \in Locale : HandleSETLOCALE(c, v)
  BY <1>7 DEF HandleSETLOCALE
<1>8. CASE HandleLIST(c)
  BY <1>8 DEF HandleLIST
<1> QED BY <1>1, <1>2, <1>3, <1>4, <1>5, <1>6, <1>7, <1>8

Died == \E why \in {"assert", "null", "dangling"} : Die(why)
Said == UNCHANGED <<connVars, userVars, gameVars, mutex, fault>>

\* The commands that only talk.
Talk(c) ==
    \/ \E ns \in (SUBSET Nick) \ {{}} : HandleGETCODEPAGE(c, ns) \/ HandleGETLOCALE(c, ns)
    \/ HandleGAMEOPTGame(c)
    \/ \E n \in Name : \/ HandleSTARTG(c, n)
                       \/ HandlePRIVMSGGame(c, n)
                       \/ HandlePAGEGame(c, n)
    \/ \E n \in Nick : \/ HandleGAMEOPTNick(c, n)
                       \/ HandlePRIVMSGNick(c, n)
                       \/ HandlePAGENick(c, n)

\* A message to a game or a nick is only said, or ends the process.
LEMMA TalkKinds ==
    ASSUME NEW c \in Conn, Talk(c)
    PROVE  Died \/ Said
<1> USE DEF Run, Died, Said
<1>1. CASE \E ns \in (SUBSET Nick) \ {{}} : HandleGETCODEPAGE(c, ns) \/ HandleGETLOCALE(c, ns)
  BY <1>1 DEF HandleGETCODEPAGE, HandleGETLOCALE, HandleLookup
<1>2. CASE HandleGAMEOPTGame(c)
  BY <1>2 DEF HandleGAMEOPTGame
<1>3. ASSUME NEW n \in Name, HandleSTARTG(c, n)  PROVE Died \/ Said
  BY <1>3 DEF HandleSTARTG
<1>4. ASSUME NEW n \in Name, HandlePRIVMSGGame(c, n) \/ HandlePAGEGame(c, n)
      PROVE  Died \/ Said
  BY <1>4 DEF HandlePRIVMSGGame, HandlePAGEGame, ToGame
<1>5. ASSUME NEW n \in Nick, HandleGAMEOPTNick(c, n)  PROVE Died \/ Said
  BY <1>5 DEF HandleGAMEOPTNick
<1>6. ASSUME NEW n \in Nick, HandlePRIVMSGNick(c, n) \/ HandlePAGENick(c, n)
      PROVE  Died \/ Said
  BY <1>6 DEF HandlePRIVMSGNick, HandlePAGENick, ToNick
<1> HIDE DEF Run, Died, Said
<1> QED BY <1>1, <1>2, <1>3, <1>4, <1>5, <1>6 DEF Talk

\* The commands that change who is in which game, when they do not die.
Hosted(c, n) ==
    /\ Executing(c) /\ ~hosting[c]
    /\ fault' = fault /\ mutex' = mutex
    /\ hosting' = [hosting EXCEPT ![c] = TRUE]
    /\ channelName' = [channelName EXCEPT ![c] = n]
    /\ Enter(c, c, n)
    /\ UNCHANGED <<connVars, userVars, topic>>

Joined(c, h, n) ==
    /\ Executing(c) /\ h \in Live /\ hosting[h]
    /\ fault' = fault /\ mutex' = mutex
    /\ Enter(c, h, n)
    /\ UNCHANGED <<connVars, userVars, hosting, channelName, topic>>

Topiced(c, t) ==
    /\ Executing(c) /\ hosting[c]
    /\ fault' = fault /\ mutex' = mutex
    /\ topic' = [topic EXCEPT ![c] = t]
    /\ UNCHANGED <<connVars, userVars, hosting, channelName, members, channel, movers>>

Closed(c) ==
    /\ Executing(c) /\ hosting[c] /\ channel[c] # NoConn
    /\ fault' = fault /\ mutex' = mutex
    /\ channel' = Loose(Range(members[c]))
    /\ hosting' = [hosting EXCEPT ![c] = FALSE]
    /\ channelName' = [channelName EXCEPT ![c] = NoName]
    /\ topic' = [topic EXCEPT ![c] = NoTopic]
    /\ members' = [members EXCEPT ![c] = <<>>]
    /\ UNCHANGED <<connVars, userVars, movers>>

Left(c) ==
    /\ Executing(c) /\ ~hosting[c]
    /\ fault' = fault /\ mutex' = mutex
    /\ channel' = Loose({c})
    /\ movers' = movers \cup {c}
    /\ UNCHANGED <<connVars, userVars, hosting, channelName, topic, members>>

KickedOut(c, who) ==
    /\ Executing(c) /\ hosting[c] /\ who # nick[c]
    /\ fault' = fault /\ mutex' = mutex
    /\ members' = [members EXCEPT ![c] = DropFirst(@, Named(who))]
    /\ channel' = Loose(Kicked(c, who))
    /\ UNCHANGED <<connVars, userVars, hosting, channelName, topic, movers>>

\* What a step that concerns games comes to.
GameCommand(c) ==
    \E n \in Name :
       \/ HandleHost(c, n)
       \/ HandleJoin(c, n)
       \/ \E t \in TopicStr : HandleTOPIC(c, n, t)
       \/ HandlePART(c, n)
       \/ \E who \in Nick : HandleKICK(c, n, who)

\* A command about games does one of seven things to them.
LEMMA GameKinds ==
    ASSUME connections \in Seq(Conn), NEW c \in Conn, GameCommand(c)
    PROVE  \/ Died
           \/ Said
           \/ \E n \in Name : Hosted(c, n) \/ \E h \in Conn : Joined(c, h, n)
           \/ \E t \in TopicStr : Topiced(c, t)
           \/ Closed(c)
           \/ Left(c)
           \/ \E who \in Nick : KickedOut(c, who)
<1>1. ASSUME NEW n \in Name, HandleHost(c, n)  PROVE Died \/ Hosted(c, n)
  BY <1>1 DEF HandleHost, Run, Died, Hosted
<1>2. ASSUME NEW n \in Name, HandleJoin(c, n)
      PROVE  Died \/ \E h \in Conn : Joined(c, h, n)
  <2> DEFINE h == FirstIn(connections, Game(n))
  <2>1. \/ Died
        \/ /\ Executing(c) /\ h # NoConn
           /\ fault' = fault /\ mutex' = mutex
           /\ Enter(c, h, n)
           /\ UNCHANGED <<connVars, userVars, hosting, channelName, topic>>
    BY <1>2 DEF HandleJoin, Run, Died
  <2>2. h = NoConn \/ h \in Live \cap Game(n)
    BY FindLive
  <2>3. h = NoConn \/ (h \in Conn /\ h \in Live /\ hosting[h])
    BY <2>2 DEF Game
  <2> HIDE DEF h
  <2> QED BY <2>1, <2>3 DEF Joined
<1>3. ASSUME NEW n \in Name, NEW t \in TopicStr, HandleTOPIC(c, n, t)
      PROVE  Died \/ Topiced(c, t)
  BY <1>3 DEF HandleTOPIC, Run, Died, Topiced
<1>4. ASSUME NEW n \in Name, HandlePART(c, n)
      PROVE  Died \/ Said \/ Closed(c) \/ Left(c)
  <2>1. CASE channel[c] = NoConn
    BY <1>4, <2>1 DEF HandlePART, Said
  <2>2. CASE channel[c] # NoConn /\ hosting[c]
    BY <1>4, <2>2 DEF HandlePART, PartHost, Run, Died, Closed
  <2>3. CASE channel[c] # NoConn /\ ~hosting[c]
    BY <1>4, <2>3 DEF HandlePART, PartGuest, Run, Died, Left
  <2> QED BY <2>1, <2>2, <2>3
<1>5. ASSUME NEW n \in Name, NEW who \in Nick, HandleKICK(c, n, who)
      PROVE  Died \/ KickedOut(c, who)
  BY <1>5 DEF HandleKICK, Run, Died, KickedOut, KickAllowed
<1> QED BY <1>1, <1>2, <1>3, <1>4, <1>5 DEF GameCommand

\* Each of which keeps the types.
LEMMA GameType ==
    ASSUME StateOK, NEW c \in Conn, GameCommand(c)
    PROVE  StateOK'
<1>1. connections \in Seq(Conn)
  BY DEF StateOK
<1>2. CASE Died
  BY <1>2, DieType DEF Died
<1>3. CASE Said
  BY <1>3 DEF Said, StateOK, connVars, userVars, gameVars
<1>4. ASSUME NEW n \in Name, Hosted(c, n)  PROVE StateOK'
  BY <1>4, EnterType DEF Hosted, StateOK, connVars, userVars
<1>5. ASSUME NEW n \in Name, NEW h \in Conn, Joined(c, h, n)  PROVE StateOK'
  BY <1>5, EnterType DEF Joined, StateOK, connVars, userVars
<1>6. ASSUME NEW t \in TopicStr, Topiced(c, t)  PROVE StateOK'
  BY <1>6 DEF Topiced, StateOK, connVars, userVars
<1>7. CASE Closed(c)
  <2>1. channel' \in [Conn -> Conn \cup {NoConn}]
    BY <1>7, LooseType DEF Closed
  <2>2. members' \in [Conn -> Seq(Conn)]
    <3>1. <<>> \in Seq(Conn)
      OBVIOUS
    <3> QED BY <1>7, <3>1 DEF Closed, StateOK
  <2> QED BY <1>7, <2>1, <2>2 DEF Closed, StateOK, connVars, userVars, Name, TopicStr
<1>8. CASE Left(c)
  <2>1. channel' \in [Conn -> Conn \cup {NoConn}]
    BY <1>8, LooseType DEF Left
  <2> QED BY <1>8, <2>1 DEF Left, StateOK, connVars, userVars
<1>9. ASSUME NEW who \in Nick, KickedOut(c, who)  PROVE StateOK'
  <2>1. channel' \in [Conn -> Conn \cup {NoConn}]
    BY <1>9, LooseType DEF KickedOut
  <2>2. DropFirst(members[c], Named(who)) \in Seq(Conn)
    BY DropFirstProperties DEF StateOK
  <2>3. members' \in [Conn -> Seq(Conn)]
    BY <1>9, <2>2 DEF KickedOut, StateOK
  <2> QED BY <1>9, <2>1, <2>3 DEF KickedOut, StateOK, connVars, userVars
<1> QED BY <1>1, <1>2, <1>3, <1>4, <1>5, <1>6, <1>7, <1>8, <1>9, GameKinds

\* What a command can do to the state, by kind.
LEMMA CommandKinds ==
    ASSUME NEW c \in Conn, Command(c)
    PROVE  \/ \/ HandleIgnored(c)
              \/ \E code \in FixedReply : HandleFixed(c, code)
              \/ HandleBadLine(c)
              \/ HandleQUIT(c)
              \/ \E n \in Nick : HandleNICK(c, n)
              \/ \E v \in CodePage : HandleSETCODEPAGE(c, v)
              \/ \E v \in Locale : HandleSETLOCALE(c, v)
              \/ HandleLIST(c)
           \/ Talk(c)
           \/ GameCommand(c)
BY Zenon DEF Command, Talk, GameCommand

\* Every step keeps the types of the state.
LEMMA StateStep == StateOK /\ [Next]_vars => StateOK'
<1> SUFFICES ASSUME StateOK, [Next]_vars  PROVE StateOK'
  OBVIOUS
<1>1. CASE UNCHANGED vars
  BY <1>1 DEF vars, connVars, userVars, gameVars, StateOK
<1>2. ASSUME NEW c \in Conn, Thread(c)  PROVE StateOK'
  BY <1>2, ThreadType
<1>3. ASSUME NEW c \in Conn, Command(c)  PROVE StateOK'
  <2>1. CASE Talk(c)
    <3>1. Died \/ Said
      BY <2>1, TalkKinds
    <3>2. CASE Died
      BY <3>2, DieType DEF Died
    <3>3. CASE Said
      BY <3>3 DEF Said, StateOK, connVars, userVars, gameVars
    <3> QED BY <3>1, <3>2, <3>3
  <2>2. CASE GameCommand(c)
    BY <2>2, GameType
  <2> QED BY <1>3, <2>1, <2>2, CommandKinds, QuietCommandType
<1> QED BY <1>1, <1>2, <1>3 DEF Next

\* The state keeps its types.
THEOREM StateCorrect == Spec => []StateOK
<1>1. Init => StateOK
  BY DEF Init, StateOK, Name, TopicStr
<1> QED BY <1>1, StateStep, PTL DEF Spec

-----------------------------------------------------------------------------
(***************************************************************************)
(* The games.  None of RosterCoversMembers, StaleHasCause and              *)
(* DoubleHasCause is inductive alone: the teardown removes an entry for    *)
(* good only if it occurs once, an entry occurs once because it was not    *)
(* stale when its connection joined, and it was not stale because          *)
(* connectedToChannel and the vectors agreed.  Together they are, with     *)
(* what is known of connections that were never accepted.                  *)
(***************************************************************************)

Ordered == /\ \A c \in Live : gameId[c] # 0
           /\ \A c \in Conn : Once(connections, c)

Fresh == \A c \in Conn : gameId[c] = 0 => ~hosting[c] /\ channel[c] = NoConn

MutexLive == mutex = NoConn \/ mutex \in Live

Games == /\ RosterCoversMembers
         /\ HostOwnsGame
         /\ StaleHasCause
         /\ DoubleHasCause

IInv == StateOK /\ Ordered /\ Fresh /\ MutexLive /\ Games

\* A step that leaves the games alone.
Quiet == /\ UNCHANGED <<connections, gameId, hosting, channelName, members, channel, movers>>
         /\ \A h \in Conn : ~hosting[h] => topic'[h] = topic[h]
         /\ mutex' \in {mutex, NoConn} \cup Live

\* What leaves games and connections alone keeps the invariant.
LEMMA QuietInv ==
    ASSUME IInv, Quiet
    PROVE  (Ordered /\ Fresh /\ MutexLive /\ Games)'
<1> USE DEF Quiet, IInv
<1>1. Live' = Live
  BY DEF Live
<1>2. Ordered' /\ Fresh' /\ MutexLive'
  BY <1>1 DEF Ordered, Fresh, MutexLive
<1>3. RosterCoversMembers' /\ StaleHasCause' /\ DoubleHasCause'
  BY <1>1 DEF Games, RosterCoversMembers, StaleHasCause, DoubleHasCause
<1>4. HostOwnsGame'
  BY <1>1 DEF Games, HostOwnsGame
<1> QED BY <1>2, <1>3, <1>4 DEF Games

\* A new connection is live, and has no part in any game.
LEMMA AcceptInv ==
    ASSUME IInv, NEW c \in Conn, Accept(c)
    PROVE  (Ordered /\ Fresh /\ MutexLive /\ Games)'
<1> USE DEF IInv
<1>1. /\ connections \in Seq(Conn) /\ gameId \in [Conn -> Nat]
      /\ nextGameId \in Nat \ {0}
  BY DEF StateOK
<1>2. /\ gameId[c] = 0 /\ connections' = Append(connections, c)
      /\ gameId' = [gameId EXCEPT ![c] = nextGameId]
      /\ mutex' = mutex
      /\ UNCHANGED <<hosting, channelName, topic, members, channel, movers>>
  BY DEF Accept, gameVars
<1>3. Live' = Live \cup {c} /\ c \notin Live
  BY <1>1, <1>2, AppendProperties DEF Live, Ordered
<1>4. \A d \in Conn : Once(connections', d)
  BY <1>1, <1>2, <1>3, AppendProperties DEF Ordered, Live
<1>5. \A d \in Live' : gameId'[d] # 0
  BY <1>1, <1>2, <1>3 DEF Ordered, Live, Range
<1>6. Fresh' /\ MutexLive'
  BY <1>1, <1>2, <1>3 DEF Fresh, MutexLive
<1>7. ~hosting[c] /\ channel[c] = NoConn /\ members[c] = <<>>
  BY <1>2 DEF Fresh, Games, HostOwnsGame
<1>8. RosterCoversMembers'
  BY <1>2, <1>3, <1>7 DEF Games, RosterCoversMembers
<1>9. HostOwnsGame'
  BY <1>2, <1>3, <1>7 DEF Games, HostOwnsGame
<1>10. StaleHasCause' /\ DoubleHasCause'
  BY <1>2, <1>3, <1>7 DEF Games, StaleHasCause, DoubleHasCause, Range, Once
<1> QED BY <1>4, <1>5, <1>6, <1>8, <1>9, <1>10 DEF Ordered, Games

\* The end of a thread takes every pointer to its connection away, but those of movers.
LEMMA TeardownInv ==
    ASSUME IInv, NEW c \in Conn, Teardown(c)
    PROVE  (Ordered /\ Fresh /\ MutexLive /\ Games)'
<1> USE DEF IInv
<1>1. /\ connections \in Seq(Conn)
      /\ members \in [Conn -> Seq(Conn)]
      /\ channel \in [Conn -> Conn \cup {NoConn}]
  BY DEF StateOK
<1>2. /\ connections' = EraseSkipping(connections, c)
      /\ members' = [h \in Conn |->
                       IF h \in Live THEN EraseSkipping(members[h], c) ELSE members[h]]
      /\ channel' = Loose({d \in Live : channel[d] = c})
      /\ c \in Live
      /\ mutex' = NoConn
      /\ UNCHANGED <<gameId, hosting, channelName, topic, movers>>
  BY DEF Teardown
<1>3. /\ Live' = Live \ {c}
      /\ \A d \in Conn : Once(connections', d)
  BY <1>1, <1>2, EraseSkippingProperties DEF Live, Ordered
<1>4. Live \subseteq Conn
  BY <1>1, LiveType
<1>5. \A d \in Conn : channel'[d] = IF d \in Live /\ channel[d] = c THEN NoConn ELSE channel[d]
  BY <1>2 DEF Loose
<1>6. \A h \in Live' :
         /\ h \in Live /\ h # c
         /\ members'[h] = EraseSkipping(members[h], c)
         /\ members[h] \in Seq(Conn)
         /\ Range(members'[h]) \subseteq Range(members[h])
         /\ Range(members[h]) \ {c} \subseteq Range(members'[h])
         /\ \A y : Once(members[h], y) => Once(members'[h], y)
         /\ Once(members[h], c) => c \notin Range(members'[h])
  BY <1>1, <1>2, <1>3, <1>4, EraseSkippingProperties
<1>7. Ordered' /\ Fresh' /\ MutexLive'
  BY <1>2, <1>3, <1>5 DEF Ordered, Fresh, MutexLive
<1>8. RosterCoversMembers'
  <2> SUFFICES ASSUME NEW d \in Live', channel'[d] # NoConn
               PROVE  /\ channel'[d] \in Live'
                      /\ hosting'[channel'[d]]
                      /\ d \in Range(members'[channel'[d]])
    BY DEF RosterCoversMembers
  <2>1. d \in Live /\ d # c /\ channel'[d] = channel[d] /\ channel[d] # c
    BY <1>3, <1>4, <1>5
  <2>2. /\ channel[d] \in Live /\ hosting[channel[d]]
        /\ d \in Range(members[channel[d]])
    BY <2>1 DEF Games, RosterCoversMembers
  <2> QED BY <2>1, <2>2, <1>2, <1>3, <1>6
<1>9. HostOwnsGame'
  <2> SUFFICES ASSUME NEW h \in Conn
               PROVE  IF hosting'[h] THEN h \in Live' => h \in Range(members'[h])
                      ELSE members'[h] = <<>> /\ channelName'[h] = NoName /\ topic'[h] = NoTopic
    BY DEF HostOwnsGame
  <2>1. CASE hosting[h]
    BY <2>1, <1>2, <1>3, <1>6 DEF Games, HostOwnsGame
  <2>2. CASE ~hosting[h]
    <3>1. members[h] = <<>> /\ channelName[h] = NoName /\ topic[h] = NoTopic
      BY <2>2 DEF Games, HostOwnsGame
    <3>2. EraseSkipping(<<>>, c) = <<>>
      <4>1. <<>> \in Seq(Conn) /\ Range(<<>>) = {}
        BY DEF Range
      <4>2. EraseSkipping(<<>>, c) \in Seq(Conn) /\ Range(EraseSkipping(<<>>, c)) = {}
        BY <4>1, EraseSkippingProperties
      <4>3. ASSUME NEW t \in Seq(Conn), Range(t) = {}  PROVE t = <<>>
        BY <4>3 DEF Range
      <4> QED BY <4>2, <4>3
    <3> QED BY <2>2, <3>1, <3>2, <1>2
  <2> QED BY <2>1, <2>2
<1>10. StaleHasCause'
  <2> SUFFICES ASSUME NEW h \in Live', NEW m \in Range(members'[h])
               PROVE  m \in movers' \/ (m \in Live' /\ channel'[m] = h)
    BY DEF StaleHasCause
  <2>1. h \in Live /\ h # c /\ m \in Range(members[h])
    BY <1>6
  <2>2. m \in movers \/ (m \in Live /\ channel[m] = h)
    BY <2>1 DEF Games, StaleHasCause
  <2>3. m = c => m \in movers
    BY <1>6, <2>1 DEF Games, DoubleHasCause
  <2> QED BY <2>1, <2>2, <2>3, <1>2, <1>3, <1>4, <1>5
<1>11. DoubleHasCause'
  BY <1>2, <1>6 DEF Games, DoubleHasCause
<1> QED BY <1>7, <1>8, <1>9, <1>10, <1>11 DEF Games

\* Hosted and Joined alike: c is now listed last in the vector of h.
Entered(c, h) ==
    /\ c \in Live /\ h \in Live
    /\ members' = [members EXCEPT ![h] = Append(members[h], c)]
    /\ channel' = [channel EXCEPT ![c] = h]
    /\ movers' = IF channel[c] = NoConn THEN movers ELSE movers \cup {c}
    /\ h = c \/ hosting[h]
    /\ hosting' = [hosting EXCEPT ![h] = TRUE]
    /\ \A k \in Conn \ {h} : channelName'[k] = channelName[k]
    /\ UNCHANGED <<connections, gameId, topic, mutex>>

\* Who enters a game is listed there.
LEMMA EnteredInv ==
    ASSUME IInv, NEW c \in Conn, NEW h \in Conn, Entered(c, h)
    PROVE  (Ordered /\ Fresh /\ MutexLive /\ Games)'
<1> USE DEF IInv
<1>1. /\ members \in [Conn -> Seq(Conn)]
      /\ channel \in [Conn -> Conn \cup {NoConn}]
      /\ hosting \in [Conn -> BOOLEAN]
      /\ connections \in Seq(Conn)
  BY DEF StateOK
<1>2. Live' = Live /\ Live \subseteq Conn
  BY <1>1, LiveType DEF Live, Entered
<1>3. /\ \A k \in Conn \ {h} : members'[k] = members[k] /\ hosting'[k] = hosting[k]
      /\ members'[h] = Append(members[h], c) /\ hosting'[h]
      /\ Range(members'[h]) = Range(members[h]) \cup {c}
      /\ \A y : Once(members[h], y) /\ (y # c \/ c \notin Range(members[h]))
                => Once(members'[h], y)
      /\ \A d \in Conn \ {c} : channel'[d] = channel[d]
      /\ channel'[c] = h
  BY <1>1, AppendProperties DEF Entered
<1>4. Ordered' /\ Fresh' /\ MutexLive'
  BY <1>2, <1>3 DEF Ordered, Fresh, MutexLive, Entered
<1>5. RosterCoversMembers'
  <2> SUFFICES ASSUME NEW d \in Live, channel'[d] # NoConn
               PROVE  /\ channel'[d] \in Live
                      /\ hosting'[channel'[d]]
                      /\ d \in Range(members'[channel'[d]])
    BY <1>2 DEF RosterCoversMembers
  <2>1. CASE d = c
    BY <2>1, <1>3 DEF Entered
  <2>2. CASE d # c
    <3>1. /\ channel'[d] = channel[d] /\ channel[d] \in Live /\ hosting[channel[d]]
          /\ d \in Range(members[channel[d]])
      BY <2>2, <1>2, <1>3 DEF Games, RosterCoversMembers
    <3> QED BY <3>1, <1>2, <1>3
  <2> QED BY <2>1, <2>2
<1>6. HostOwnsGame'
  <2> SUFFICES ASSUME NEW k \in Conn
               PROVE  IF hosting'[k] THEN k \in Live => k \in Range(members'[k])
                      ELSE members'[k] = <<>> /\ channelName'[k] = NoName /\ topic'[k] = NoTopic
    BY <1>2 DEF HostOwnsGame
  <2>1. CASE k = h
    <3>1. h \in Range(members'[h])
      BY <1>3 DEF Entered, Games, HostOwnsGame
    <3> QED BY <2>1, <3>1, <1>3
  <2>2. CASE k # h
    BY <2>2, <1>3 DEF Entered, Games, HostOwnsGame
  <2> QED BY <2>1, <2>2
<1>7. \A k \in Live : c \in Range(members[k]) => c \in movers'
  BY <1>2 DEF Games, StaleHasCause, Entered
<1>8. StaleHasCause'
  <2> SUFFICES ASSUME NEW k \in Live, NEW m \in Range(members'[k])
               PROVE  m \in movers' \/ (m \in Live /\ channel'[m] = k)
    BY <1>2 DEF StaleHasCause
  <2>1. CASE m = c
    <3>1. CASE k = h
      BY <2>1, <3>1, <1>3 DEF Entered
    <3>2. CASE k # h
      BY <2>1, <3>2, <1>2, <1>3, <1>7
    <3> QED BY <3>1, <3>2
  <2>2. CASE m # c
    <3>1. m \in Range(members[k]) /\ k \in Conn
      BY <2>2, <1>2, <1>3
    <3>2. m \in movers \/ (m \in Live /\ channel[m] = k)
      BY <3>1 DEF Games, StaleHasCause
    <3>3. movers \subseteq movers'
      BY DEF Entered
    <3> QED BY <2>2, <3>2, <3>3, <1>2, <1>3
  <2> QED BY <2>1, <2>2
<1>9. DoubleHasCause'
  <2> SUFFICES ASSUME NEW k \in Live, NEW m \in Conn
               PROVE  m \in movers' \/ Once(members'[k], m)
    BY <1>2 DEF DoubleHasCause
  <2>1. m \in movers \/ Once(members[k], m)
    BY DEF Games, DoubleHasCause
  <2>2. movers \subseteq movers'
    BY DEF Entered
  <2>3. CASE k # h
    BY <2>1, <2>2, <2>3, <1>2, <1>3
  <2>4. CASE k = h
    BY <2>1, <2>2, <2>4, <1>3, <1>7
  <2> QED BY <2>3, <2>4
<1> QED BY <1>4, <1>5, <1>6, <1>8, <1>9 DEF Games

\* A host that closes its game sends every member out of it.
LEMMA ClosedInv ==
    ASSUME IInv, NEW c \in Conn, Closed(c)
    PROVE  (Ordered /\ Fresh /\ MutexLive /\ Games)'
<1> USE DEF IInv
<1>1. /\ members \in [Conn -> Seq(Conn)]
      /\ channel \in [Conn -> Conn \cup {NoConn}]
      /\ hosting \in [Conn -> BOOLEAN]
      /\ channelName \in [Conn -> Name] /\ topic \in [Conn -> TopicStr]
      /\ connections \in Seq(Conn)
  BY DEF StateOK
<1>2. Live' = Live /\ Live \subseteq Conn
  BY <1>1, LiveType DEF Live, Closed, connVars
<1>3. /\ \A k \in Conn \ {c} : members'[k] = members[k] /\ hosting'[k] = hosting[k]
                               /\ channelName'[k] = channelName[k] /\ topic'[k] = topic[k]
      /\ members'[c] = <<>> /\ ~hosting'[c] /\ channelName'[c] = NoName /\ topic'[c] = NoTopic
      /\ \A d \in Conn : channel'[d] = IF d \in Range(members[c]) THEN NoConn ELSE channel[d]
      /\ UNCHANGED <<connections, gameId, movers, mutex>>
  BY <1>1 DEF Closed, Loose, connVars
<1>4. Ordered' /\ Fresh' /\ MutexLive'
  BY <1>2, <1>3 DEF Ordered, Fresh, MutexLive
<1>5. RosterCoversMembers'
  BY <1>2, <1>3 DEF Games, RosterCoversMembers
<1>6. HostOwnsGame'
  BY <1>2, <1>3 DEF Games, HostOwnsGame
<1>7. c \in Live
  BY <1>2 DEF Closed, Executing, MutexLive
<1>8. \A k \in Live : k # c => \A m \in Range(members[k]) :
         m \in Range(members[c]) => m \in movers
  BY <1>7 DEF Games, StaleHasCause
<1>9. Range(<<>>) = {} /\ \A y : Once(<<>>, y)
  BY DEF Range, Once
<1>10. StaleHasCause'
  <2> SUFFICES ASSUME NEW k \in Live, NEW m \in Range(members'[k])
               PROVE  m \in movers \/ (m \in Live /\ channel'[m] = k)
    BY <1>2, <1>3 DEF StaleHasCause
  <2>1. k # c /\ m \in Range(members[k])
    BY <1>2, <1>3, <1>9
  <2>2. m \in movers \/ (m \in Live /\ channel[m] = k)
    BY <2>1 DEF Games, StaleHasCause
  <2> QED BY <2>1, <2>2, <1>2, <1>3, <1>8
<1>11. DoubleHasCause'
  BY <1>2, <1>3, <1>9 DEF Games, DoubleHasCause
<1> QED BY <1>4, <1>5, <1>6, <1>10, <1>11 DEF Games

\* A guest that parts becomes a mover.
LEMMA LeftInv ==
    ASSUME IInv, NEW c \in Conn, Left(c)
    PROVE  (Ordered /\ Fresh /\ MutexLive /\ Games)'
<1> USE DEF IInv
<1>1. connections \in Seq(Conn)
  BY DEF StateOK
<1>2. /\ Live' = Live /\ Live \subseteq Conn
      /\ UNCHANGED <<connections, gameId, hosting, channelName, topic, members, mutex>>
      /\ movers' = movers \cup {c}
      /\ \A d \in Conn : channel'[d] = IF d = c THEN NoConn ELSE channel[d]
  BY <1>1, LiveType DEF Live, Left, Loose, connVars
<1>3. Ordered' /\ Fresh' /\ MutexLive'
  BY <1>2 DEF Ordered, Fresh, MutexLive
<1>4. RosterCoversMembers' /\ HostOwnsGame'
  BY <1>2 DEF Games, RosterCoversMembers, HostOwnsGame
<1>5. StaleHasCause' /\ DoubleHasCause'
  BY <1>2 DEF Games, StaleHasCause, DoubleHasCause
<1> QED BY <1>3, <1>4, <1>5 DEF Games

\* Who is kicked is no longer listed, and has no game, or is a mover.
LEMMA KickedOutInv ==
    ASSUME IInv, NEW c \in Conn, NEW who \in Nick, KickedOut(c, who)
    PROVE  (Ordered /\ Fresh /\ MutexLive /\ Games)'
<1> USE DEF IInv
<1> DEFINE s == members[c]
           x == Select(s, Named(who))[1]
<1>1. /\ members \in [Conn -> Seq(Conn)] /\ s \in Seq(Conn)
      /\ channel \in [Conn -> Conn \cup {NoConn}]
      /\ connections \in Seq(Conn)
  BY DEF StateOK
<1>2. /\ Live' = Live /\ Live \subseteq Conn
      /\ UNCHANGED <<connections, gameId, hosting, channelName, topic, movers, mutex>>
      /\ \A k \in Conn \ {c} : members'[k] = members[k]
      /\ members'[c] = DropFirst(s, Named(who))
  BY <1>1, LiveType DEF Live, KickedOut, connVars
<1>3. c \in Live /\ hosting[c] /\ c \notin Named(who)
  BY DEF KickedOut, Executing, MutexLive, Named
<1>4. CASE Positions(s, Named(who)) = {}
  <2>1. members'[c] = members[c]
    BY <1>2, <1>4 DEF DropFirst
  <2>2. Kicked(c, who) = {}
    BY <1>4 DEF Kicked, FirstIn
  <2>3. \A d \in Conn : channel'[d] = channel[d]
    BY <2>2 DEF KickedOut, Loose
  <2>4. \A k \in Conn : members'[k] = members[k]
    BY <2>1, <1>2
  <2>5. Ordered' /\ Fresh' /\ MutexLive'
    BY <1>2, <2>3 DEF Ordered, Fresh, MutexLive
  <2>6. RosterCoversMembers' /\ HostOwnsGame'
    BY <1>1, <1>2, <2>3, <2>4 DEF Games, RosterCoversMembers, HostOwnsGame
  <2>7. StaleHasCause' /\ DoubleHasCause'
    BY <1>1, <1>2, <2>3, <2>4 DEF Games, StaleHasCause, DoubleHasCause, Range
  <2> QED BY <2>5, <2>6, <2>7 DEF Games
<1>5. CASE Positions(s, Named(who)) # {}
  <2>1. x \in Range(s) /\ x \in Named(who) /\ x \in Conn /\ x # NoConn
    <3>1. x \in Range(s) \cap Named(who)
      BY <1>1, <1>5, SelectProperties
    <3>2. x \in Conn
      BY <3>1 DEF Named
    <3> QED BY <3>1, <3>2
  <2>2. Kicked(c, who) = {x}
    BY <1>5, <2>1 DEF Kicked, FirstIn
  <2>3. \A d \in Conn : channel'[d] = IF d = x THEN NoConn ELSE channel[d]
    BY <2>2 DEF KickedOut, Loose
  <2>4. /\ Range(members'[c]) \subseteq Range(s)
        /\ \A y \in Range(s) : y = x \/ y \in Range(members'[c])
        /\ \A y : Once(s, y) => Once(members'[c], y)
        /\ Once(s, x) => x \notin Range(members'[c])
    BY <1>1, <1>2, <1>5, DropFirstProperties
  <2> HIDE DEF x, s
  <2>5. Ordered' /\ Fresh' /\ MutexLive'
    BY <1>2, <2>3 DEF Ordered, Fresh, MutexLive
  <2>6. RosterCoversMembers'
    <3> SUFFICES ASSUME NEW d \in Live, channel'[d] # NoConn
                 PROVE  /\ channel'[d] \in Live
                        /\ hosting[channel'[d]]
                        /\ d \in Range(members'[channel'[d]])
      BY <1>2 DEF RosterCoversMembers
    <3>1. d # x /\ channel'[d] = channel[d]
      BY <1>2, <2>3
    <3>2. /\ channel[d] \in Live /\ hosting[channel[d]]
          /\ d \in Range(members[channel[d]])
      BY <3>1 DEF Games, RosterCoversMembers
    <3> QED BY <3>1, <3>2, <1>2, <2>4 DEF s
  <2>7. HostOwnsGame'
    <3>1. c \in Range(members'[c])
      BY <1>3, <1>2, <2>1, <2>4 DEF Games, HostOwnsGame, s
    <3> QED BY <3>1, <1>2, <1>3 DEF Games, HostOwnsGame
  <2>8. x \in movers \/ channel[x] = c
    BY <2>1, <1>3 DEF Games, StaleHasCause, s
  <2>9. x \in movers \/ x \notin Range(members'[c])
    BY <2>1, <2>4, <1>3 DEF Games, DoubleHasCause, s
  <2>10. StaleHasCause'
    <3> SUFFICES ASSUME NEW k \in Live, NEW m \in Range(members'[k])
                 PROVE  m \in movers \/ (m \in Live /\ channel'[m] = k)
      BY <1>2 DEF StaleHasCause
    <3>1. m \in Range(members[k])
      BY <1>2, <2>4 DEF s
    <3>2. m \in movers \/ (m \in Live /\ channel[m] = k)
      BY <3>1 DEF Games, StaleHasCause
    <3>3. CASE m = x
      <4>1. CASE k = c
        BY <3>3, <4>1, <2>9
      <4>2. CASE k # c
        BY <3>2, <3>3, <4>2, <2>8
      <4> QED BY <4>1, <4>2
    <3>4. CASE m # x
      BY <3>2, <3>4, <1>2, <2>3
    <3> QED BY <3>3, <3>4
  <2>11. DoubleHasCause'
    BY <1>2, <2>4 DEF Games, DoubleHasCause, s
  <2> QED BY <2>5, <2>6, <2>7, <2>10, <2>11 DEF Games
<1> QED BY <1>4, <1>5

-----------------------------------------------------------------------------
(* The pointers a handler follows, while nobody has left or changed game. *)

\* Every member of a live game is live and connected to it.
LEMMA MembersAreLive ==
    ASSUME IInv, movers = {}, NEW h \in Live
    PROVE  \A m \in Range(members[h]) : m \in Live /\ channel[m] = h
BY DEF IInv, Games, StaleHasCause

\* The game of a live connection is live, and so are its members.
LEMMA ChannelIsLive ==
    ASSUME IInv, movers = {}, NEW c \in Live, channel[c] # NoConn
    PROVE  /\ channel[c] \in Live
           /\ Range(MembersOf(channel[c])) \subseteq Live
BY MembersAreLive DEF IInv, Games, RosterCoversMembers, MembersOf

\* A search loop reads entries of the vector only.
LEMMA ScannedInRange ==
    ASSUME NEW s, NEW S
    PROVE  Scanned(s, S) \subseteq Range(s)
BY DEF Scanned, Range

\* A pointer fault needs a pointer that is not live.
BadPointer(touched) == ~(touched \subseteq Live)

\* A null or freed pointer is not to a live connection.
LEMMA DeathCause ==
    ASSUME IInv, NEW touched
    PROVE  (NoConn \in touched \/ touched \cap Freed # {}) => BadPointer(touched)
BY LiveType DEF IInv, StateOK, BadPointer, Freed

\* While nobody has moved, a command follows no bad pointer.
LEMMA CommandFault ==
    ASSUME IInv, NEW c \in Conn, Command(c), movers = {}
    PROVE  fault' \notin {"null", "dangling"}
<1> USE DEF Executing
<1>1. /\ connections \in Seq(Conn) /\ Live \subseteq Conn /\ NoConn \notin Live
      /\ Live \cap Freed = {}
  BY LiveType DEF IInv, StateOK, Freed
<1>2. fault = "none" /\ mutex = c /\ c \in Live
  BY <1>1, Zenon DEF Command, HandleIgnored, HandleFixed, HandleBadLine, HandleQUIT, HandleNICK,
        HandleSETCODEPAGE, HandleSETLOCALE, HandleGETCODEPAGE, HandleGETLOCALE, HandleLookup,
        HandleLIST, HandleGAMEOPTGame, HandleHost, HandleJoin, HandleTOPIC, HandleSTARTG,
        HandlePART, HandlePRIVMSGGame, HandlePAGEGame, HandleKICK, HandleGAMEOPTNick,
        HandlePRIVMSGNick, HandlePAGENick, IInv, MutexLive
<1>3. \/ channel[c] = NoConn
      \/ /\ channel[c] \in Live
         /\ Range(MembersOf(channel[c])) \subseteq Live
         /\ \A S : Scanned(MembersOf(channel[c]), S) \subseteq Live
  BY <1>2, ChannelIsLive, ScannedInRange
<1>4. /\ Range(members[c]) \subseteq Live
      /\ \A m \in Range(members[c]) : channel[m] = c
      /\ \A S : Scanned(members[c], S) \subseteq Live
  BY <1>2, MembersAreLive, ScannedInRange
<1>5. hosting[c] => channel[c] = c
  BY <1>1, <1>2, <1>4 DEF IInv, Games, HostOwnsGame
<1>6. CASE HandleGAMEOPTGame(c)
  BY <1>1, <1>2, <1>3, <1>6 DEF HandleGAMEOPTGame, Run, Die
<1>7. ASSUME NEW n \in Nick, HandleGAMEOPTNick(c, n)  PROVE fault' \notin {"null", "dangling"}
  BY <1>1, <1>2, <1>3, <1>7 DEF HandleGAMEOPTNick, Run, Die
<1>8. ASSUME NEW n \in Name, HandleSTARTG(c, n)  PROVE fault' \notin {"null", "dangling"}
  BY <1>1, <1>2, <1>4, <1>8 DEF HandleSTARTG, Run, Die
<1>9. ASSUME NEW n \in Name, HandlePRIVMSGGame(c, n) \/ HandlePAGEGame(c, n)
      PROVE  fault' \notin {"null", "dangling"}
  BY <1>1, <1>2, <1>3, <1>9 DEF HandlePRIVMSGGame, HandlePAGEGame, ToGame, Run, Die
<1>10. ASSUME NEW n \in Nick, HandlePRIVMSGNick(c, n) \/ HandlePAGENick(c, n)
      PROVE  fault' \notin {"null", "dangling"}
  BY <1>2, <1>10 DEF HandlePRIVMSGNick, HandlePAGENick, ToNick, Run, Die
<1>11. ASSUME NEW ns \in (SUBSET Nick) \ {{}}, HandleGETCODEPAGE(c, ns) \/ HandleGETLOCALE(c, ns)
      PROVE  fault' \notin {"null", "dangling"}
  BY <1>2, <1>11 DEF HandleGETCODEPAGE, HandleGETLOCALE, HandleLookup, Run, Die
<1>12. ASSUME NEW n \in Name, HandleHost(c, n)  PROVE fault' \notin {"null", "dangling"}
  BY <1>1, <1>2, <1>4, <1>12 DEF HandleHost, Run, Die
<1>13. ASSUME NEW n \in Name, HandleJoin(c, n)  PROVE fault' \notin {"null", "dangling"}
  <2> DEFINE h == FirstIn(connections, Game(n))
  <2>1. h = NoConn \/ (h \in Live /\ Range(MembersOf(h)) \subseteq Live)
    BY <1>1, FindLive, MembersAreLive DEF MembersOf
  <2>2. \/ fault' = fault \/ fault' = "assert"
        \/ h # NoConn /\ BadPointer(Range(MembersOf(h)))
    BY <1>13, DeathCause DEF HandleJoin, Run, Die
  <2> HIDE DEF h
  <2> QED BY <2>1, <2>2, <1>2 DEF BadPointer
<1>14. ASSUME NEW n \in Name, NEW t \in TopicStr, HandleTOPIC(c, n, t)
      PROVE  fault' \notin {"null", "dangling"}
  BY <1>2, <1>14 DEF HandleTOPIC, Run, Die
<1>15. ASSUME NEW n \in Name, HandlePART(c, n)  PROVE fault' \notin {"null", "dangling"}
  <2>1. CASE channel[c] = NoConn
    BY <1>2, <1>15, <2>1 DEF HandlePART
  <2>2. CASE channel[c] # NoConn /\ hosting[c]
    <3>1. {channel[c]} \cup Range(members[c])
            \cup {channel[d] : d \in Range(members[c]) \ {c}} \subseteq Live
      BY <1>2, <1>4, <1>5, <2>2
    <3>2. PartHost(c, n)
      BY <1>15, <2>2 DEF HandlePART
    <3>3. \/ fault' = fault \/ fault' = "assert"
          \/ BadPointer({channel[c]} \cup Range(members[c])
                          \cup {channel[d] : d \in Range(members[c]) \ {c}})
      BY <3>2, DeathCause DEF PartHost, Run, Die
    <3> QED BY <3>1, <3>3, <1>2 DEF BadPointer
  <2>3. CASE channel[c] # NoConn /\ ~hosting[c]
    BY <1>1, <1>2, <1>3, <1>4, <1>15, <2>3 DEF HandlePART, PartGuest, Run, Die
  <2> QED BY <2>1, <2>2, <2>3
<1>16. ASSUME NEW n \in Name, NEW who \in Nick, HandleKICK(c, n, who)
      PROVE  fault' \notin {"null", "dangling"}
  <2>1. hosting[c] => {channel[c]} \cup Range(MembersOf(channel[c]))
                        \cup Scanned(members[c], Named(who)) \subseteq Live
    BY <1>1, <1>2, <1>3, <1>4, <1>5
  <2>2. \/ fault' = fault \/ fault' = "assert"
        \/ hosting[c] /\ BadPointer({channel[c]} \cup Range(MembersOf(channel[c]))
                                      \cup Scanned(members[c], Named(who)))
    BY <1>16, DeathCause DEF HandleKICK, KickAllowed, Run, Die
  <2> QED BY <2>1, <2>2, <1>2 DEF BadPointer
<1>17. CASE HandleBadLine(c)
  BY <1>17 DEF HandleBadLine, Die
<1>18. CASE \/ HandleIgnored(c)
            \/ \E code \in FixedReply : HandleFixed(c, code)
            \/ HandleQUIT(c)
            \/ \E n \in Nick : HandleNICK(c, n)
            \/ \E v \in CodePage : HandleSETCODEPAGE(c, v)
            \/ \E v \in Locale : HandleSETLOCALE(c, v)
            \/ HandleLIST(c)
  BY <1>2, <1>18 DEF HandleIgnored, HandleFixed, HandleQUIT, HandleNICK, HandleSETCODEPAGE,
                     HandleSETLOCALE, HandleLIST
<1> QED BY <1>6, <1>7, <1>8, <1>9, <1>10, <1>11, <1>12, <1>13, <1>14, <1>15, <1>16, <1>17,
           <1>18, Zenon DEF Command

\* Only commands end the process.
LEMMA ThreadFault ==
    ASSUME NEW c \in Conn, Thread(c)
    PROVE  fault' = fault
BY DEF Thread, Accept, RecvChunk, EndChunk, RecvFail, Teardown

-----------------------------------------------------------------------------

\* The end of the process keeps the invariant.
LEMMA DiedInv ==
    ASSUME IInv, Died
    PROVE  (Ordered /\ Fresh /\ MutexLive /\ Games)'
BY QuietInv DEF Died, Die, Quiet, connVars, gameVars

\* What is only said keeps the invariant.
LEMMA SaidInv ==
    ASSUME IInv, Said
    PROVE  (Ordered /\ Fresh /\ MutexLive /\ Games)'
BY QuietInv DEF Said, Quiet, connVars, gameVars

\* Every command keeps the invariant.
LEMMA CommandInv ==
    ASSUME IInv, NEW c \in Conn, Command(c)
    PROVE  (Ordered /\ Fresh /\ MutexLive /\ Games)'
<1> DEFINE G == (Ordered /\ Fresh /\ MutexLive /\ Games)'
<1>1. CASE \/ HandleIgnored(c)
           \/ \E code \in FixedReply : HandleFixed(c, code)
           \/ HandleBadLine(c)
           \/ HandleQUIT(c)
           \/ \E n \in Nick : HandleNICK(c, n)
           \/ \E v \in CodePage : HandleSETCODEPAGE(c, v)
           \/ \E v \in Locale : HandleSETLOCALE(c, v)
           \/ HandleLIST(c)
  <2>1. Quiet
    BY <1>1 DEF HandleIgnored, HandleFixed, HandleBadLine, Die, HandleQUIT, HandleNICK,
                HandleSETCODEPAGE, HandleSETLOCALE, HandleLIST, Quiet, connVars, gameVars
  <2> QED BY <2>1, QuietInv
<1>2. CASE Talk(c)
  BY <1>2, TalkKinds, DiedInv, SaidInv
<1>3. CASE GameCommand(c)
  <2>1. connections \in Seq(Conn) /\ (mutex = c => c \in Live)
    BY LiveType DEF IInv, StateOK, MutexLive
  <2>2. members \in [Conn -> Seq(Conn)] /\ hosting \in [Conn -> BOOLEAN]
        /\ channelName \in [Conn -> Name]
    BY DEF IInv, StateOK
  <2>3. ASSUME NEW n \in Name, Hosted(c, n)  PROVE G
    <3>1. Entered(c, c)
      BY <2>1, <2>2, <2>3 DEF Hosted, Executing, Enter, Entered, connVars
    <3> QED BY <3>1, EnteredInv
  <2>4. ASSUME NEW n \in Name, NEW h \in Conn, Joined(c, h, n)  PROVE G
    <3>1. hosting' = [hosting EXCEPT ![h] = TRUE]
      BY <2>2, <2>4 DEF Joined
    <3>2. Entered(c, h)
      BY <2>1, <2>4, <3>1 DEF Joined, Executing, Enter, Entered, connVars
    <3> QED BY <3>2, EnteredInv
  <2>5. ASSUME NEW t \in TopicStr, Topiced(c, t)  PROVE G
    <3>1. Quiet
      BY <2>5 DEF Topiced, Quiet, connVars, IInv, StateOK
    <3> QED BY <3>1, QuietInv
  <2>6. ASSUME NEW who \in Nick, KickedOut(c, who)  PROVE G
    BY <2>6, KickedOutInv
  <2> HIDE DEF G
  <2> QED BY <2>1, <2>3, <2>4, <2>5, <2>6, <1>3, GameKinds, DiedInv, SaidInv, ClosedInv,
             LeftInv DEF G
<1> QED BY <1>1, <1>2, <1>3, CommandKinds

\* Every step between commands keeps the invariant.
LEMMA ThreadInv ==
    ASSUME IInv, NEW c \in Conn, Thread(c)
    PROVE  (Ordered /\ Fresh /\ MutexLive /\ Games)'
<1>1. CASE RecvChunk(c) \/ EndChunk(c) \/ RecvFail(c)
  <2>1. Quiet
    BY <1>1 DEF RecvChunk, EndChunk, RecvFail, Quiet, connVars, gameVars
  <2> QED BY <2>1, QuietInv
<1> QED BY <1>1, AcceptInv, TeardownInv DEF Thread

\* The invariant holds in a server without connections.
LEMMA InvInit == Init => IInv /\ FaultHasCause
<1> SUFFICES ASSUME Init  PROVE IInv /\ FaultHasCause
  OBVIOUS
<1> USE DEF Init
<1>1. StateOK
  BY DEF StateOK, Name, TopicStr
<1>2. Live = {}
  BY DEF Live, Range
<1>3. Ordered /\ Fresh /\ MutexLive
  BY <1>2 DEF Ordered, Fresh, MutexLive, Once
<1>4. Games
  BY <1>2 DEF Games, RosterCoversMembers, HostOwnsGame, StaleHasCause, DoubleHasCause
<1>5. FaultHasCause
  BY DEF FaultHasCause
<1> QED BY <1>1, <1>3, <1>4, <1>5 DEF IInv

\* The inductive invariant, and with it what a fault has to be caused by.
LEMMA InvStep == IInv /\ FaultHasCause /\ StateOK' /\ [Next]_vars => (IInv /\ FaultHasCause)'
<1> SUFFICES ASSUME IInv, FaultHasCause, StateOK', [Next]_vars
             PROVE  (IInv /\ FaultHasCause)'
  OBVIOUS
<1>1. CASE UNCHANGED vars
  <2>1. Quiet
    BY <1>1 DEF Quiet, vars, connVars, gameVars
  <2>2. FaultHasCause'
    BY <1>1 DEF FaultHasCause, vars, gameVars
  <2> QED BY <2>1, <2>2, QuietInv DEF IInv
<1>2. ASSUME NEW c \in Conn, Thread(c)  PROVE (IInv /\ FaultHasCause)'
  <2>1. fault' = fault /\ movers' = movers
    BY <1>2, ThreadFault DEF Thread, Accept, RecvChunk, EndChunk, RecvFail, Teardown, gameVars
  <2> QED BY <1>2, <2>1, ThreadInv DEF IInv, FaultHasCause
<1>3. ASSUME NEW c \in Conn, Command(c)  PROVE (IInv /\ FaultHasCause)'
  <2>1. movers \subseteq movers'
    <3>1. CASE GameCommand(c)
      <4>1. Died \/ Said => movers' = movers
        BY DEF Died, Die, Said, gameVars
      <4>2. \A n, h : Hosted(c, n) \/ Joined(c, h, n) => movers \subseteq movers'
        BY DEF Hosted, Joined, Enter
      <4>3. \A x : Topiced(c, x) \/ Closed(c) \/ KickedOut(c, x) => movers' = movers
        BY DEF Topiced, Closed, KickedOut
      <4>4. Left(c) => movers \subseteq movers'
        BY DEF Left
      <4>5. connections \in Seq(Conn)
        BY DEF IInv, StateOK
      <4> QED BY <3>1, <4>1, <4>2, <4>3, <4>4, <4>5, GameKinds
    <3>2. CASE Talk(c)
      BY <3>2, TalkKinds DEF Died, Die, Said, gameVars
    <3>3. CASE \/ HandleIgnored(c)
               \/ \E code \in FixedReply : HandleFixed(c, code)
               \/ HandleBadLine(c)
               \/ HandleQUIT(c)
               \/ \E n \in Nick : HandleNICK(c, n)
               \/ \E v \in CodePage : HandleSETCODEPAGE(c, v)
               \/ \E v \in Locale : HandleSETLOCALE(c, v)
               \/ HandleLIST(c)
      BY <3>3 DEF HandleIgnored, HandleFixed, HandleBadLine, Die, HandleQUIT, HandleNICK,
                  HandleSETCODEPAGE, HandleSETLOCALE, HandleLIST, gameVars
    <3> QED BY <1>3, <3>1, <3>2, <3>3, CommandKinds
  <2>2. movers = {} => fault' \notin {"null", "dangling"}
    BY <1>3, CommandFault
  <2> QED BY <1>3, <2>1, <2>2, CommandInv DEF IInv, FaultHasCause
<1> QED BY <1>1, <1>2, <1>3 DEF Next

\* The inductive invariant holds always, and with it that no handler follows a bad
\* pointer before somebody has moved.
THEOREM InvCorrect == Spec => [](IInv /\ FaultHasCause)
<1>1. Spec => []StateOK
  BY StateCorrect
<1> QED BY <1>1, InvInit, InvStep, PTL DEF Spec

\* connectedToChannel is always null or a live host that lists the connection:
\* RosterCoversMembers holds for every set of clients.
THEOREM RosterCorrect == Spec => []RosterCoversMembers
<1>1. IInv => RosterCoversMembers
  BY DEF IInv, Games
<1> QED BY <1>1, InvCorrect, PTL

\* A host stays in its own game until it parts.
THEOREM HostCorrect == Spec => []HostOwnsGame
<1>1. IInv => HostOwnsGame
  BY DEF IInv, Games
<1> QED BY <1>1, InvCorrect, PTL

\* A stale entry is always that of a connection that left or changed game by
\* itself.
THEOREM EntriesCorrect == Spec => []StaleHasCause
<1>1. IInv => StaleHasCause
  BY DEF IInv, Games
<1> QED BY <1>1, InvCorrect, PTL

\* And so is a double one.
THEOREM DoublesCorrect == Spec => []DoubleHasCause
<1>1. IInv => DoubleHasCause
  BY DEF IInv, Games
<1> QED BY <1>1, InvCorrect, PTL

\* No handler follows a null or dangling pointer before somebody has left or
\* changed game by itself.
THEOREM FaultCorrect == Spec => []FaultHasCause
BY InvCorrect, PTL

-----------------------------------------------------------------------------
(* Who may change the game of a connection. *)

ByRight(d) ==
    \/ mutex = d
    \/ mutex # NoConn /\ hosting[mutex] /\ d \in Range(members[mutex])
    \/ mutex = NoConn /\ channel[d] \notin Range(connections')

\* A command changes a game pointer only by right.
LEMMA CommandByRight ==
    ASSUME IInv, NEW c \in Conn, Command(c), NEW d \in Conn, channel'[d] # channel[d]
    PROVE  ByRight(d)
<1>1. /\ connections \in Seq(Conn) /\ channel \in [Conn -> Conn \cup {NoConn}]
      /\ members[c] \in Seq(Conn)
  BY DEF IInv, StateOK
<1>2. CASE Talk(c)
  BY <1>2, TalkKinds DEF Died, Die, Said, gameVars
<1>3. CASE \/ HandleIgnored(c)
           \/ \E code \in FixedReply : HandleFixed(c, code)
           \/ HandleBadLine(c)
           \/ HandleQUIT(c)
           \/ \E n \in Nick : HandleNICK(c, n)
           \/ \E v \in CodePage : HandleSETCODEPAGE(c, v)
           \/ \E v \in Locale : HandleSETLOCALE(c, v)
           \/ HandleLIST(c)
  BY <1>3 DEF HandleIgnored, HandleFixed, HandleBadLine, Die, HandleQUIT, HandleNICK,
              HandleSETCODEPAGE, HandleSETLOCALE, HandleLIST, gameVars
<1>4. CASE GameCommand(c)
  <2>1. ~Died /\ ~Said
    BY DEF Died, Die, Said, gameVars
  <2>2. ASSUME NEW n, NEW h, Hosted(c, n) \/ Joined(c, h, n)  PROVE ByRight(d)
    <3>1. mutex = c /\ \E k : channel' = [channel EXCEPT ![c] = k]
      BY <2>2 DEF Hosted, Joined, Enter, Executing
    <3>2. d = c
      BY <3>1, <1>1
    <3> QED BY <3>1, <3>2 DEF ByRight
  <2>3. ASSUME NEW t, Topiced(c, t)  PROVE ByRight(d)
    BY <2>3 DEF Topiced
  <2>4. CASE Closed(c)
    BY <2>4, <1>1 DEF Closed, Loose, Executing, ByRight
  <2>5. CASE Left(c)
    BY <2>5, <1>1 DEF Left, Loose, Executing, ByRight
  <2>6. ASSUME NEW who, KickedOut(c, who)  PROVE ByRight(d)
    <3>1. Kicked(c, who) \subseteq Range(members[c])
      BY <1>1, SelectProperties DEF Kicked, FirstIn
    <3>2. d \in Kicked(c, who)
      BY <2>6 DEF KickedOut, Loose
    <3> QED BY <2>6, <3>1, <3>2 DEF KickedOut, Executing, ByRight
  <2> QED BY <1>1, <1>4, <2>1, <2>2, <2>3, <2>4, <2>5, <2>6, GameKinds
<1> QED BY <1>2, <1>3, <1>4, CommandKinds

\* The steps between commands change one only as the host's thread ends.
LEMMA ThreadByRight ==
    ASSUME IInv, NEW c \in Conn, Thread(c), NEW d \in Conn, channel'[d] # channel[d]
    PROVE  ByRight(d)
<1>1. CASE Teardown(c)
  <2>1. connections \in Seq(Conn) /\ Once(connections, c)
    BY DEF IInv, StateOK, Ordered
  <2>2. c \notin Range(connections')
    BY <1>1, <2>1, EraseSkippingProperties DEF Teardown
  <2>3. channel[d] = c /\ mutex = NoConn
    BY <1>1 DEF Teardown, Loose
  <2> QED BY <2>2, <2>3 DEF ByRight
<1>2. CASE Accept(c) \/ RecvChunk(c) \/ EndChunk(c) \/ RecvFail(c)
  BY <1>2 DEF Accept, RecvChunk, EndChunk, RecvFail, gameVars
<1> QED BY <1>1, <1>2 DEF Thread

\* A connection changes game only by its own command, by the hand of the host
\* that lists it, or because its host's connection is torn down.
THEOREM ByRightCorrect == Spec => ChannelChangedByRight
<1>1. IInv /\ [Next]_vars => [\A d \in Conn : channel'[d] # channel[d] =>
         \/ mutex = d
         \/ mutex # NoConn /\ hosting[mutex] /\ d \in Range(members[mutex])
         \/ mutex = NoConn /\ channel[d] \notin Range(connections')]_vars
  <2> SUFFICES ASSUME IInv, Next, NEW d \in Conn, channel'[d] # channel[d]
               PROVE  ByRight(d)
    BY DEF ByRight
  <2> QED BY CommandByRight, ThreadByRight DEF Next
<1> QED BY <1>1, InvCorrect, PTL DEF Spec, ChannelChangedByRight

-----------------------------------------------------------------------------
(* The lines written on the sockets, and who hears what is said in a game.   *)

InGame == {"GAMEOPT", "STARTG", "KICK"}
Plain  == {m \in Msg : m.type \notin InGame}

Started(c) ==
    hosting[c] /\ sent' = Broadcast(members[c], Start(nick[c], Nicks(members[c]), gameId[c]))

\* c writes lines, and those of a game only to whom the vector of its game, or
\* its own as a host, lists; a STARTG to all of its own.
Sent(c) ==
    /\ SentType'
    /\ \A d \in Conn : Hears(d, InGame) =>
          /\ Executing(c)
          /\ \/ d \in Range(MembersOf(channel[c]))
             \/ hosting[c] /\ d \in Range(members[c])
          /\ Hears(d, {"STARTG"}) => Started(c)

\* Nothing is said in a game by lines of no game.
LEMMA PlainSent ==
    ASSUME NEW c, sent' \in [Conn -> Seq(Plain)]
    PROVE  Sent(c)
<1>1. \A d \in Conn : sent'[d] \in Seq(Plain)
  OBVIOUS
<1>2. \A d \in Conn : sent'[d] \in Seq(Msg) /\ \A i \in DOMAIN sent'[d] : sent'[d][i] \in Plain
  <2>1. Plain \subseteq Msg
    BY DEF Plain
  <2> QED BY <1>1, <2>1
<1>3. SentType'
  BY <1>2 DEF SentType
<1>4. \A d \in Conn : ~Hears(d, InGame)
  BY <1>2 DEF Hears, Plain
<1> QED BY <1>3, <1>4 DEF Sent

\* What the handlers write are lines.
LEMMA LineType ==
    /\ \A t \in {"JOINGAME", "PAGE", "GAMEOPT", "PART", "PRIVMSG", "KICK"}, n, g \in Name :
         /\ Line(t, n, g) \in Msg
         /\ t \notin InGame => Line(t, n, g) \in Plain
    /\ \A code \in FixedReply \cup {"607", "329", "310", "389"} : Reply(code) \in Plain
<1>1. \A t \in {"JOINGAME", "PAGE", "GAMEOPT", "PART", "PRIVMSG", "KICK"}, n, g \in Name :
         Line(t, n, g) \in GameLine
  BY DEF Line, GameLine
<1>2. \A code \in FixedReply \cup {"607", "329", "310", "389"} : Reply(code) \in ReplyLine
  BY DEF Line, Reply, ReplyLine
<1>3. \A code \in FixedReply \cup {"607", "329", "310", "389"} :
         Reply(code).type = code /\ code \notin InGame
  BY DEF Line, Reply, FixedReply, InGame
<1>4. \A t, n, g : Line(t, n, g).type = t
  BY DEF Line
<1> QED BY <1>1, <1>2, <1>3, <1>4 DEF Msg, Plain

\* Lines repeated are lines.
LEMMA CopiesType ==
    ASSUME NEW M, NEW m \in M, NEW n \in Nat
    PROVE  Copies(m, n) \in Seq(M)
BY DEF Copies

\* To write nothing is to write lines.
LEMMA NoSendType == NoSend \in [Conn -> Seq(Plain)]
BY DEF NoSend

\* A line for one connection.
LEMMA SendToType ==
    ASSUME NEW M, NEW c, NEW m \in M
    PROVE  SendTo(c, m) \in [Conn -> Seq(M)]
BY DEF SendTo

\* A line for each entry of a vector.
LEMMA BroadcastType ==
    ASSUME NEW M, NEW s \in Seq(Conn), NEW c, NEW m \in M
    PROVE  /\ Broadcast(s, m) \in [Conn -> Seq(M)]
           /\ Relay(s, c, m) \in [Conn -> Seq(M)]
<1>1. \A d \in Conn : Copies(m, Occurrences(s, d)) \in Seq(M)
  BY OccurrencesType, CopiesType
<1>2. <<>> \in Seq(M)
  OBVIOUS
<1> QED BY <1>1, <1>2 DEF Broadcast, Relay

\* Such a line is heard by nobody whom the vector does not list.
LEMMA BroadcastHeard ==
    ASSUME NEW s \in Seq(Conn), NEW c, NEW m, NEW d \in Conn, NEW T, Hears(d, T),
           sent' = Broadcast(s, m) \/ sent' = Relay(s, c, m)
    PROVE  d \in Range(s) /\ m.type \in T
<1>1. sent'[d] = Copies(m, Occurrences(s, d)) \/ sent'[d] = <<>>
  BY DEF Broadcast, Relay
<1>2. Occurrences(s, d) # 0
  BY <1>1 DEF Hears, Copies
<1>3. {k \in DOMAIN s : s[k] = d} # {}
  BY <1>2, FS_EmptySet DEF Occurrences
<1>4. PICK i \in DOMAIN sent'[d] : sent'[d][i].type \in T
  BY DEF Hears
<1>5. \A n, k : k \in DOMAIN Copies(m, n) => Copies(m, n)[k] = m
  BY DEF Copies
<1>6. sent'[d][i] = m
  BY <1>1, <1>4, <1>5
<1> QED BY <1>3, <1>4, <1>6 DEF Range

\* A line for each name in the game.
LEMMA NicksType ==
    ASSUME StateOK, NEW s \in Seq(Conn)
    PROVE  Nicks(s) \in Seq(Name) /\ LastFirst(s) \in Seq(Name)
<1>1. DOMAIN s = 1 .. Len(s) /\ Len(s) \in Nat /\ \A i \in DOMAIN s : s[i] \in Conn
  OBVIOUS
<1>2. \A i \in 1 .. Len(s) : nick[s[i]] \in Name
  BY <1>1 DEF StateOK
<1>3. \A i \in 1 .. Len(s) : Len(s) + 1 - i \in 1 .. Len(s)
  BY <1>1
<1>4. Nicks(s) \in Seq(Name)
  BY <1>1, <1>2 DEF Nicks
<1>5. LastFirst(s) \in Seq(Name)
  BY <1>1, <1>2, <1>3 DEF LastFirst
<1> QED BY <1>4, <1>5

\* Who dies has written nothing anybody reads.
LEMMA DieSent ==
    ASSUME NEW why, Die(why)
    PROVE  sent' \in [Conn -> Seq(Plain)]
BY NoSendType DEF Die

\* Entering a game writes lines.
LEMMA EnterSent ==
    ASSUME StateOK, NEW c \in Conn, NEW h \in Conn, NEW g \in Name, Enter(c, h, g)
    PROVE  sent' \in [Conn -> Seq(Plain)]
<1> DEFINE roster == Append(members[h], c)
           others == Select(roster, Conn \ {c})
           pages  == [i \in DOMAIN others |-> Line("PAGE", nick[others[i]], NoName)]
           first(d) == Copies(Line("JOINGAME", nick[c], g), Occurrences(roster, d))
           names  == Roster(g, topic[h], LastFirst(roster))
           page(d) == Copies(Line("PAGE", nick[c], g), Occurrences(roster, d))
<1>1. /\ members[h] \in Seq(Conn) /\ nick \in [Conn -> Name] /\ topic[h] \in TopicStr
  BY DEF StateOK
<1>2. roster \in Seq(Conn)
  BY <1>1, AppendProperties
<1>3. others \in Seq(Conn)
  BY <1>2, SelectProperties
<1>4. pages \in Seq(Plain)
  <2> HIDE DEF others
  <2>1. /\ DOMAIN others = 1 .. Len(others) /\ Len(others) \in Nat
        /\ \A i \in DOMAIN others : others[i] \in Conn
    BY <1>3
  <2>2. \A i \in 1 .. Len(others) : Line("PAGE", nick[others[i]], NoName) \in Plain
    BY <1>1, <2>1, LineType DEF Name, InGame
  <2> QED BY <2>1, <2>2
<1>5. Line("JOINGAME", nick[c], g) \in Plain /\ Line("PAGE", nick[c], g) \in Plain
  BY <1>1, LineType DEF InGame
<1>6. \A d \in Conn : first(d) \in Seq(Plain) /\ page(d) \in Seq(Plain)
  BY <1>2, <1>5, OccurrencesType, CopiesType
<1>7. names \in Plain
  BY <1>1, <1>2, NicksType DEF Roster, RosterLine, Msg, Plain, InGame
<1>8. sent' = [d \in Conn |-> first(d) \o IF d = c THEN <<names>> \o pages ELSE page(d)]
  BY DEF Enter
<1> HIDE DEF roster, others, pages, first, names, page
<1>9. <<names>> \in Seq(Plain)
  BY <1>7
<1>10. <<names>> \o pages \in Seq(Plain)
  BY <1>4, <1>9
<1>11. \A d \in Conn : first(d) \o (IF d = c THEN <<names>> \o pages ELSE page(d)) \in Seq(Plain)
  BY <1>6, <1>10
<1> QED BY <1>8, <1>11

\* The commands that change at most names and locales write lines.
LEMMA QuietCommandSent ==
    ASSUME StateOK, NEW c \in Conn,
           \/ HandleIgnored(c)
           \/ \E code \in FixedReply : HandleFixed(c, code)
           \/ HandleBadLine(c)
           \/ HandleQUIT(c)
           \/ \E n \in Nick : HandleNICK(c, n)
           \/ \E v \in CodePage : HandleSETCODEPAGE(c, v)
           \/ \E v \in Locale : HandleSETLOCALE(c, v)
           \/ HandleLIST(c)
    PROVE  sent' \in [Conn -> Seq(Plain)]
<1>1. CASE HandleIgnored(c) \/ HandleBadLine(c) \/ \E n \in Nick : HandleNICK(c, n)
  BY <1>1, NoSendType DEF HandleIgnored, HandleBadLine, HandleNICK, Die
<1>2. CASE \/ \E code \in FixedReply : HandleFixed(c, code)
           \/ HandleQUIT(c)
           \/ \E v \in CodePage : HandleSETCODEPAGE(c, v)
           \/ \E v \in Locale : HandleSETLOCALE(c, v)
  <2>1. PICK code \in FixedReply \cup {"607", "329", "310"} : sent' = SendTo(c, Reply(code))
    BY <1>2 DEF HandleFixed, HandleQUIT, HandleSETCODEPAGE, HandleSETLOCALE
  <2>2. Reply(code) \in Plain
    BY LineType
  <2> QED BY <2>1, <2>2, SendToType
<1>3. CASE HandleLIST(c)
  <2> DEFINE games == {[game |-> channelName[h], players |-> Len(members[h])]
                         : h \in Hosts \cap Live}
  <2>1. games \subseteq [game: Name, players: Nat]
    BY DEF Hosts, StateOK
  <2>2. Listing(games) \in Plain
    BY <2>1 DEF Listing, ListLine, Msg, Plain, InGame
  <2>3. sent' = SendTo(c, Listing(games))
    BY <1>3 DEF HandleLIST
  <2> HIDE DEF games
  <2> QED BY <2>2, <2>3, SendToType
<1> QED BY <1>1, <1>2, <1>3

\* Messages to games and nicks are lines, those to a game heard by its members.
LEMMA TalkSent ==
    ASSUME StateOK, NEW c \in Conn, Talk(c)
    PROVE  Sent(c)
<1>0. Died => Sent(c)
  BY DieSent, PlainSent DEF Died
<1>1. /\ connections \in Seq(Conn) /\ nick \in [Conn -> Name] /\ members[c] \in Seq(Conn)
      /\ channelName \in [Conn -> Name] /\ gameId[c] \in Nat
      /\ channel[c] \in Conn \cup {NoConn}
      /\ MembersOf(channel[c]) \in Seq(Conn) /\ GameName(channel[c]) \in Name
  BY DEF StateOK, MembersOf, GameName, Name
<1>2. ASSUME NEW ns \in (SUBSET Nick) \ {{}}, NEW code \in {"328", "309"},
             NEW field \in [Conn -> CodePage \cup Locale], HandleLookup(c, code, ns, field)
      PROVE  Sent(c)
  <2>2. CASE /\ \A n \in ns : FirstIn(connections, Named(n)) # NoConn
             /\ sent' = SendTo(c, Answer(code, Lookup(ns, field)))
    <3>1. \A n \in ns : FirstIn(connections, Named(n)) \in Conn
      BY <1>1, <2>2, FindLive, LiveType
    <3>2. Lookup(ns, field) \in [ns -> CodePage \cup Locale] /\ ns \in SUBSET Nick
      BY <3>1 DEF Lookup
    <3>3. Answer(code, Lookup(ns, field)) \in AnswerLine
      BY <3>2 DEF AnswerLine
    <3>4. Answer(code, Lookup(ns, field)) \in Plain
      BY <3>3 DEF Answer, Msg, Plain, InGame
    <3> QED BY <2>2, <3>4, SendToType, PlainSent
  <2> QED BY <1>0, <1>2, <2>2 DEF HandleLookup, Run, Died
<1>3. ASSUME NEW ns \in (SUBSET Nick) \ {{}}, HandleGETCODEPAGE(c, ns) \/ HandleGETLOCALE(c, ns)
      PROVE  Sent(c)
  <2>1. codepage \in [Conn -> CodePage \cup Locale] /\ locale \in [Conn -> CodePage \cup Locale]
    BY DEF StateOK
  <2> QED BY <1>2, <1>3, <2>1 DEF HandleGETCODEPAGE, HandleGETLOCALE
<1>4. CASE HandleGAMEOPTGame(c)
  <2> DEFINE m == Line("GAMEOPT", nick[c], GameName(channel[c]))
             s == MembersOf(channel[c])
  <2>1. m \in Msg
    BY <1>1, LineType
  <2>2. Died \/ sent' = Relay(s, c, m)
    BY <1>4 DEF HandleGAMEOPTGame, Run, Died
  <2>3. s \in Seq(Conn) /\ Executing(c) /\ m.type = "GAMEOPT"
    BY <1>1, <1>4 DEF HandleGAMEOPTGame, Line
  <2> HIDE DEF m
  <2>4. ASSUME sent' = Relay(s, c, m)  PROVE Sent(c)
    <3>1. SentType'
      BY <2>1, <2>3, <2>4, BroadcastType DEF SentType
    <3>2. \A d \in Conn : Hears(d, InGame) => d \in Range(s)
      BY <2>3, <2>4, BroadcastHeard
    <3>3. \A d \in Conn : ~Hears(d, {"STARTG"})
      <4> SUFFICES ASSUME NEW d \in Conn, Hears(d, {"STARTG"})  PROVE FALSE
        OBVIOUS
      <4>1. m.type \in {"STARTG"}
        BY <2>3, <2>4, BroadcastHeard
      <4> QED BY <2>3, <4>1
    <3> QED BY <2>3, <3>1, <3>2, <3>3 DEF Sent
  <2> QED BY <1>0, <2>2, <2>4
<1>5. ASSUME NEW n \in Nick, HandleGAMEOPTNick(c, n)  PROVE Sent(c)
  <2> DEFINE m == Line("GAMEOPT", nick[c], n)
             s == MembersOf(channel[c])
  <2>1. m \in Msg
    BY <1>1, LineType DEF Name
  <2>2. Died \/ sent' = NoSend \/ (Positions(s, Named(n)) # {} /\ sent' = SendTo(FirstIn(s, Named(n)), m))
    BY <1>5 DEF HandleGAMEOPTNick, Run, Died
  <2>3. Executing(c) /\ m.type = "GAMEOPT"
    BY <1>5 DEF HandleGAMEOPTNick, Line
  <2>4. Positions(s, Named(n)) # {} => FirstIn(s, Named(n)) \in Range(s)
    BY <1>1, SelectProperties DEF FirstIn
  <2>5. ASSUME NEW d \in Conn, NEW T, NEW e, sent' = SendTo(e, m), Hears(d, T)
        PROVE  d = e /\ m.type \in T
    BY <2>5 DEF SendTo, Hears
  <2> HIDE DEF m, s
  <2>6. ASSUME Positions(s, Named(n)) # {}, sent' = SendTo(FirstIn(s, Named(n)), m)  PROVE Sent(c)
    <3>1. SentType'
      BY <2>1, <2>6, SendToType DEF SentType
    <3> QED BY <2>3, <2>4, <2>5, <2>6, <3>1 DEF Sent, s
  <2> QED BY <1>0, <2>2, <2>6, NoSendType, PlainSent
<1>6. ASSUME NEW n \in Name, HandleSTARTG(c, n)  PROVE Sent(c)
  <2> DEFINE m == Start(nick[c], Nicks(members[c]), gameId[c])
  <2>1. m \in Msg
    BY <1>1, NicksType DEF Start, StartLine, Msg
  <2>2. Died \/ (hosting[c] /\ sent' = Broadcast(members[c], m))
    BY <1>6 DEF HandleSTARTG, Run, Died
  <2>3. Executing(c)
    BY <1>6 DEF HandleSTARTG
  <2> HIDE DEF m
  <2>4. ASSUME hosting[c], sent' = Broadcast(members[c], m)  PROVE Sent(c)
    BY <1>1, <2>1, <2>3, <2>4, BroadcastType, BroadcastHeard DEF Sent, SentType, Started, m
  <2> QED BY <1>0, <2>2, <2>4
<1>7. ASSUME NEW n \in Name, NEW type \in {"PRIVMSG", "PAGE"}, ToGame(c, type, n)
      PROVE  Sent(c)
  <2> DEFINE r == Relay(MembersOf(channel[c]), c, Line(type, nick[c], n))
             ack == IF type = "PAGE" THEN <<Reply("389")>> ELSE <<>>
  <2>1. Line(type, nick[c], n) \in Plain
    BY <1>1, LineType DEF InGame
  <2>2. r \in [Conn -> Seq(Plain)]
    BY <1>1, <2>1, BroadcastType
  <2>3. \/ Died
        \/ sent' = [r EXCEPT ![c] = ack]
    BY <1>7 DEF ToGame, Run, Died
  <2>4. Reply("389") \in Plain
    BY LineType
  <2>5. ack \in Seq(Plain)
    BY <2>4
  <2> HIDE DEF r, ack
  <2> QED BY <1>0, <2>2, <2>3, <2>5, PlainSent
<1>8. ASSUME NEW n \in Nick, NEW type \in {"PRIVMSG", "PAGE"}, ToNick(c, type, n)
      PROVE  Sent(c)
  <2> DEFINE t == FirstIn(connections, Named(n))
             a(d) == IF d = t THEN <<Line(type, nick[c], NoName)>> ELSE <<>>
             b(d) == IF d = c THEN (IF type = "PAGE" THEN <<Reply("389")>> ELSE <<>>) ELSE <<>>
  <2>1. Line(type, nick[c], NoName) \in Plain /\ Reply("389") \in Plain
    BY <1>1, LineType DEF Name, InGame
  <2>2. <<Line(type, nick[c], NoName)>> \in Seq(Plain) /\ <<Reply("389")>> \in Seq(Plain)
        /\ <<>> \in Seq(Plain)
    BY <2>1
  <2>3. \A d \in Conn : a(d) \in Seq(Plain) /\ b(d) \in Seq(Plain)
    BY <2>2
  <2>4. Died \/ sent' = [d \in Conn |-> a(d) \o b(d)]
    BY <1>8 DEF ToNick, Run, Died
  <2> HIDE DEF a, b
  <2>5. \A d \in Conn : a(d) \o b(d) \in Seq(Plain)
    BY <2>3
  <2> QED BY <1>0, <2>4, <2>5, PlainSent
<1> QED BY <1>3, <1>4, <1>5, <1>6, <1>7, <1>8
        DEF Talk, HandlePRIVMSGGame, HandlePAGEGame, HandlePRIVMSGNick, HandlePAGENick

\* The commands about games write lines, and a kick is heard by the members.
LEMMA GameCommandSent ==
    ASSUME StateOK, NEW c \in Conn, GameCommand(c)
    PROVE  Sent(c)
<1>0. Died => Sent(c)
  BY DieSent, PlainSent DEF Died
<1>1. /\ connections \in Seq(Conn) /\ nick \in [Conn -> Name] /\ members \in [Conn -> Seq(Conn)]
      /\ channelName \in [Conn -> Name] /\ channel \in [Conn -> Conn \cup {NoConn}]
      /\ MembersOf(channel[c]) \in Seq(Conn)
      /\ \A d \in Conn : GameName(channel[d]) \in Name
  BY DEF StateOK, MembersOf, GameName, Name
<1>2. ASSUME NEW n \in Name, HandleHost(c, n)  PROVE Sent(c)
  <2>1. Died \/ Enter(c, c, n)
    BY <1>2 DEF HandleHost, Run, Died
  <2> QED BY <1>0, <2>1, EnterSent, PlainSent
<1>3. ASSUME NEW n \in Name, HandleJoin(c, n)  PROVE Sent(c)
  <2> DEFINE h == FirstIn(connections, Game(n))
  <2>1. Died \/ (h # NoConn /\ Enter(c, h, n))
    BY <1>3 DEF HandleJoin, Run, Died
  <2>2. h = NoConn \/ h \in Conn
    BY <1>1, FindLive, LiveType
  <2> HIDE DEF h
  <2> QED BY <1>0, <2>1, <2>2, EnterSent, PlainSent
<1>4. ASSUME NEW n \in Name, NEW t \in TopicStr, HandleTOPIC(c, n, t)  PROVE Sent(c)
  <2>1. Died \/ sent' = NoSend
    BY <1>4 DEF HandleTOPIC, Run, Died
  <2> QED BY <1>0, <2>1, NoSendType, PlainSent
<1>5. ASSUME NEW n \in Name, PartHost(c, n)  PROVE Sent(c)
  <2> DEFINE roster == members[c]
             gone   == Line("PART", nick[c], GameName(channel[c]))
             own(d) == Line("PART", nick[d], GameName(channel[d]))
             f(d)   == IF d = c THEN Copies(gone, Occurrences(roster, d))
                       ELSE [i \in 1 .. 2 * Occurrences(roster, d) |->
                               IF i % 2 = 1 THEN gone ELSE own(d)]
  <2>1. gone \in Plain /\ \A d \in Conn : own(d) \in Plain
    BY <1>1, LineType DEF InGame
  <2>2. \A d \in Conn : Occurrences(roster, d) \in Nat
    BY <1>1, OccurrencesType
  <2>3. Died \/ sent' = [d \in Conn |-> f(d)]
    BY <1>5 DEF PartHost, Run, Died
  <2> HIDE DEF gone, own, roster
  <2>4. \A d \in Conn : Copies(gone, Occurrences(roster, d)) \in Seq(Plain)
    BY <2>1, <2>2, CopiesType
  <2>5. \A d \in Conn : [i \in 1 .. 2 * Occurrences(roster, d) |->
                            IF i % 2 = 1 THEN gone ELSE own(d)] \in Seq(Plain)
    <3> TAKE d \in Conn
    <3>1. 2 * Occurrences(roster, d) \in Nat
      BY <2>2
    <3> QED BY <2>1, <3>1
  <2>6. \A d \in Conn : f(d) \in Seq(Plain)
    BY <2>4, <2>5
  <2> HIDE DEF f
  <2> QED BY <1>0, <2>3, <2>6, PlainSent
<1>6. ASSUME NEW n \in Name, PartGuest(c, n)  PROVE Sent(c)
  <2>1. Line("PART", nick[c], n) \in Plain
    BY <1>1, LineType DEF InGame
  <2>2. Died \/ sent' = Broadcast(members[c], Line("PART", nick[c], n))
    BY <1>6 DEF PartGuest, Run, Died
  <2>3. Broadcast(members[c], Line("PART", nick[c], n)) \in [Conn -> Seq(Plain)]
    BY <1>1, <2>1, BroadcastType
  <2> QED BY <1>0, <2>2, <2>3, PlainSent
<1>7. ASSUME NEW n \in Name, HandlePART(c, n)  PROVE Sent(c)
  BY <1>5, <1>6, <1>7, NoSendType, PlainSent DEF HandlePART
<1>8. ASSUME NEW n \in Name, NEW who \in Nick, HandleKICK(c, n, who)  PROVE Sent(c)
  <2>1. Line("KICK", who, n) \in Msg
    BY LineType DEF Name
  <2>2. Died \/ sent' = Broadcast(MembersOf(channel[c]), Line("KICK", who, n))
    BY <1>8 DEF HandleKICK, Run, Died
  <2>3. Broadcast(MembersOf(channel[c]), Line("KICK", who, n)) \in [Conn -> Seq(Msg)]
    BY <1>1, <2>1, BroadcastType
  <2>4. Executing(c) /\ Line("KICK", who, n).type = "KICK"
    BY <1>8 DEF HandleKICK, Line
  <2>5. ASSUME sent' = Broadcast(MembersOf(channel[c]), Line("KICK", who, n))  PROVE Sent(c)
    <3>1. SentType'
      BY <2>3, <2>5 DEF SentType
    <3>2. \A d \in Conn : Hears(d, InGame) => d \in Range(MembersOf(channel[c]))
      BY <1>1, <2>5, BroadcastHeard
    <3>3. \A d \in Conn : ~Hears(d, {"STARTG"})
      <4> SUFFICES ASSUME NEW d \in Conn, Hears(d, {"STARTG"})  PROVE FALSE
        OBVIOUS
      <4>1. Line("KICK", who, n).type \in {"STARTG"}
        BY <1>1, <2>5, BroadcastHeard
      <4> QED BY <2>4, <4>1
    <3> QED BY <2>4, <3>1, <3>2, <3>3 DEF Sent
  <2> QED BY <1>0, <2>2, <2>5
<1> QED BY <1>2, <1>3, <1>4, <1>7, <1>8 DEF GameCommand

\* So does every step, of one connection's thread.
LEMMA NextSent == StateOK /\ Next => \E c \in Conn : Sent(c)
<1> SUFFICES ASSUME StateOK, NEW c \in Conn, Thread(c) \/ Command(c)  PROVE Sent(c)
  BY DEF Next
<1>1. CASE Thread(c)
  BY <1>1, NoSendType, PlainSent DEF Thread, Accept, RecvChunk, EndChunk, RecvFail, Teardown
<1>2. CASE Command(c)
  BY <1>2, CommandKinds, QuietCommandSent, PlainSent, TalkSent, GameCommandSent
<1> QED BY <1>1, <1>2

\* The whole type invariant: besides the state, every line that any handler
\* writes on any socket is a line of the protocol, with a nick, a game name or
\* a list of them where the protocol has one.
THEOREM TypeCorrect == Spec => []TypeOK
<1>1. Init => SentType
  <2>1. Plain \subseteq Msg
    BY DEF Plain
  <2>2. NoSend \in [Conn -> Seq(Msg)]
    BY DEF NoSend
  <2> QED BY <2>2 DEF Init, SentType
<1>2. StateOK /\ SentType => TypeOK
  BY DEF TypeOK, SentType
<1>3. StateOK /\ SentType /\ [Next]_vars => SentType'
  <2>1. UNCHANGED vars /\ SentType => SentType'
    BY DEF vars, SentType
  <2> QED BY <2>1, NextSent DEF Sent
<1> QED BY <1>1, <1>2, <1>3, StateCorrect, PTL DEF Spec

\* Options, starts and kicks are heard by no one outside the game, but for those
\* who left or changed game by themselves: whom a vector lists is in its game.
THEOREM PrivateCorrect == Spec => GameStaysPrivate
<1>1. IInv /\ [Next]_vars => [\A d \in Conn : Hears(d, {"GAMEOPT", "STARTG", "KICK"}) =>
         d \in movers \/ mutex \in movers \/ channel[d] = channel[mutex]]_vars
  <2> SUFFICES ASSUME IInv, Next, NEW d \in Conn, Hears(d, InGame)
               PROVE  d \in movers \/ mutex \in movers \/ channel[d] = channel[mutex]
    BY DEF InGame
  <2>1. PICK c \in Conn : Sent(c)
    BY NextSent DEF IInv
  <2>2. /\ mutex = c /\ c \in Live
        /\ d \in Range(MembersOf(channel[c])) \/ (hosting[c] /\ d \in Range(members[c]))
    BY <2>1 DEF Sent, Executing, IInv, MutexLive, StateOK
  <2>3. RosterCoversMembers /\ HostOwnsGame /\ StaleHasCause
    BY DEF IInv, Games
  <2>4. CASE d \in Range(MembersOf(channel[c]))
    <3>1. channel[c] # NoConn /\ d \in Range(members[channel[c]])
      BY <2>4 DEF MembersOf, Range
    <3>2. channel[c] \in Live
      BY <2>2, <2>3, <3>1 DEF RosterCoversMembers
    <3> QED BY <2>2, <2>3, <3>1, <3>2 DEF StaleHasCause
  <2>5. CASE hosting[c] /\ d \in Range(members[c])
    <3>1. c \in Range(members[c])
      BY <2>2, <2>3, <2>5 DEF HostOwnsGame
    <3>2. (c \in movers \/ channel[c] = c) /\ (d \in movers \/ channel[d] = c)
      BY <2>2, <2>3, <2>5, <3>1 DEF StaleHasCause
    <3> QED BY <2>2, <3>2
  <2> QED BY <2>2, <2>4, <2>5
<1> QED BY <1>1, InvCorrect, PTL DEF Spec, GameStaysPrivate

\* A vector whose entries are single and in S, and that lists all of S, has as
\* many entries as S.
LEMMA SingleEntries ==
    ASSUME NEW C, NEW s \in Seq(C), NEW S, Range(s) = S, \A x \in S : Once(s, x)
    PROVE  Cardinality(S) = Len(s)
<1>1. s \in [1 .. Len(s) -> S] /\ Len(s) \in Nat /\ DOMAIN s = 1 .. Len(s)
  BY DEF Range
<1>2. s \in Injection(1 .. Len(s), S)
  <2>1. \A i, j \in 1 .. Len(s) : s[i] = s[j] => i = j
    <3> TAKE i, j \in 1 .. Len(s)
    <3>1. s[i] \in S
      BY <1>1
    <3>2. Once(s, s[i])
      BY <3>1
    <3> QED BY <1>1, <3>2 DEF Once
  <2> QED BY <1>1, <2>1 DEF Injection, IsInjective
<1>3. s \in Surjection(1 .. Len(s), S)
  BY <1>1 DEF Surjection, Range
<1>4. ExistsBijection(1 .. Len(s), S)
  BY <1>2, <1>3 DEF ExistsBijection, Bijection
<1>5. IsFiniteSet(1 .. Len(s)) /\ Cardinality(1 .. Len(s)) = Len(s)
  <2>1. 1 \in Int /\ Len(s) \in Int
    BY <1>1
  <2>2. /\ IsFiniteSet(1 .. Len(s))
        /\ Cardinality(1 .. Len(s)) = IF 1 > Len(s) THEN 0 ELSE Len(s) - 1 + 1
    BY <2>1, FS_Interval
  <2> QED BY <1>1, <2>2
<1> QED BY <1>4, <1>5, FS_Bijection

\* A STARTG is heard by everyone in the game, and names as many as are in it: the
\* vector of a host without movers lists each of them once, and nobody else.
THEOREM StartCorrect == Spec => StartReachesGame
<1>1. IInv /\ [Next]_vars => [\A d \in Conn : \A i \in DOMAIN sent'[d] :
         sent'[d][i].type = "STARTG" =>
            LET inGame == {e \in Live : channel[e] = mutex} IN
            /\ \A e \in inGame : Hears(e, {"STARTG"})
            /\ \/ \E m \in movers : m \in Range(members[mutex])
               \/ Len(sent'[d][i].players) = Cardinality(inGame)]_vars
  <2> DEFINE inGame == {e \in Live : channel[e] = mutex}
  <2> SUFFICES ASSUME IInv, Next, NEW d \in Conn, NEW i \in DOMAIN sent'[d],
                      sent'[d][i].type = "STARTG"
               PROVE  /\ \A e \in inGame : Hears(e, {"STARTG"})
                      /\ \/ \E m \in movers : m \in Range(members[mutex])
                         \/ Len(sent'[d][i].players) = Cardinality(inGame)
    OBVIOUS
  <2>1. PICK c \in Conn : Sent(c)
    BY NextSent DEF IInv
  <2>2. Hears(d, InGame) /\ Hears(d, {"STARTG"})
    BY DEF Hears, InGame
  <2>3. mutex = c /\ c \in Live /\ Started(c)
    BY <2>1, <2>2 DEF Sent, Executing, IInv, MutexLive, StateOK
  <2>4. /\ RosterCoversMembers /\ StaleHasCause /\ DoubleHasCause
        /\ members[c] \in Seq(Conn) /\ Live \subseteq Conn /\ NoConn \notin Conn
    BY LiveType, NoConnAssumption DEF IInv, Games, StateOK
  <2>5. inGame \subseteq Range(members[c])
    BY <2>3, <2>4 DEF RosterCoversMembers
  <2>6. \A e \in Conn : sent'[e] = Copies(Start(nick[c], Nicks(members[c]), gameId[c]),
                                         Occurrences(members[c], e))
    BY <2>3 DEF Started, Broadcast
  <2>7. ASSUME NEW e \in inGame  PROVE Hears(e, {"STARTG"})
    <3>1. e \in Conn /\ {k \in DOMAIN members[c] : members[c][k] = e} # {}
      BY <2>4, <2>5 DEF Range
    <3>2. Occurrences(members[c], e) \in Nat \ {0}
      <4> DEFINE K == {k \in DOMAIN members[c] : members[c][k] = e}
      <4>1. K \in SUBSET (1 .. Len(members[c])) /\ Len(members[c]) \in Int
        BY <2>4
      <4>2. IsFiniteSet(1 .. Len(members[c]))
        BY <4>1, FS_Interval
      <4>3. IsFiniteSet(K)
        BY <4>1, <4>2, FS_Subset
      <4>4. Cardinality(K) # 0
        BY <3>1, <4>3, FS_EmptySet
      <4> QED BY <2>4, <4>4, OccurrencesType DEF Occurrences
    <3>3. 1 \in DOMAIN sent'[e] /\ sent'[e][1].type = "STARTG"
      <4> DEFINE start == Start(nick[c], Nicks(members[c]), gameId[c])
                 n == Occurrences(members[c], e)
      <4>1. sent'[e] = Copies(start, n)
        BY <2>6, <3>1
      <4>2. start.type = "STARTG"
        BY DEF Start
      <4>3. n \in Nat \ {0}
        BY <3>2
      <4> HIDE DEF start, n
      <4>4. 1 \in DOMAIN Copies(start, n) /\ Copies(start, n)[1] = start
        BY <4>3 DEF Copies
      <4> QED BY <4>1, <4>2, <4>4
    <3> QED BY <3>3 DEF Hears
  <2>8. ASSUME \A m \in movers : m \notin Range(members[c])
        PROVE  Len(sent'[d][i].players) = Cardinality(inGame)
    <3>1. Range(members[c]) = inGame
      BY <2>3, <2>4, <2>5, <2>8 DEF StaleHasCause
    <3>2. \A e \in inGame : Once(members[c], e)
      BY <2>3, <2>4, <2>5, <2>8 DEF DoubleHasCause
    <3>3. Cardinality(inGame) = Len(members[c])
      BY <2>4, <3>1, <3>2, SingleEntries
    <3>4. Len(Nicks(members[c])) = Len(members[c])
      BY <2>4 DEF Nicks
    <3>5. sent'[d] = Copies(Start(nick[c], Nicks(members[c]), gameId[c]),
                            Occurrences(members[c], d))
      BY <2>6
    <3>6. sent'[d][i] = Start(nick[c], Nicks(members[c]), gameId[c])
      <4>1. \A m, n, k : k \in DOMAIN Copies(m, n) => Copies(m, n)[k] = m
        BY DEF Copies
      <4> QED BY <3>5, <4>1
    <3>7. sent'[d][i].players = Nicks(members[c])
      BY <3>6 DEF Start
    <3> QED BY <3>3, <3>4, <3>7
  <2> QED BY <2>3, <2>7, <2>8
<1> QED BY <1>1, InvCorrect, PTL DEF Spec, StartReachesGame
=============================================================================
