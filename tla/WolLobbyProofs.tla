--------------------------- MODULE WolLobbyProofs ---------------------------
(***************************************************************************)
(* The lobby as a whole, for any number of players, lines and lines under  *)
(* way: it is a WolIrcServer, whose theorems hold in it, and the players   *)
(* and the server agree about who is in which game as far as the lines     *)
(* under way allow.                                                        *)
(***************************************************************************)
EXTENDS WolLobby, WolIrcServerProofs

-----------------------------------------------------------------------------
(* Types, and the lobby as a WolIrcServer. *)

\* The lines only a host sends, those that only speak or ask about a player, and all.
HostOnly  == {"STARTG", "TOPIC", "KICK"}
TalkTypes == {"GAMEOPT", "PRIVMSG", "PAGE", "GETCODEPAGE", "GETLOCALE"}
SaidType  == {"LIST", "HOST", "JOIN", "QUIT", "PART"} \cup HostOnly \cup TalkTypes \cup Bare

UpLine == {l \in [type: SaidType \cup {"NICK"}, nick: Name, game: Name] :
              l.type \in {"NICK", "KICK", "GETCODEPAGE", "GETLOCALE"} => l.nick \in Conn}

Screens == {"off", "lobby", "asking", "game", "left"}

LobbyTypeOK ==
    /\ up \in [Conn -> Seq(UpLine)] /\ down \in [Conn -> Seq(Msg)]
    /\ chunk \in Nat
    /\ screen \in [Conn -> Screens]
    /\ game \in [Conn -> Name]
    /\ seen \in [Conn -> SUBSET Name]
    /\ spent \in [Conn -> Nat]
    /\ stalled \subseteq Conn
    /\ ended \in BOOLEAN /\ strayed \in BOOLEAN

\* The kinds of lines that are answered without a look at the games.
LEMMA BareKinds ==
    /\ DOMAIN Answered = {"lobcount", "whereto", "USER", "SQUADINFO", "GETINSIDER", "TIME", "GETBUDDY"}
    /\ \A t \in DOMAIN Answered : Answered[t] \in FixedReply
    /\ Bare \cap ({"NICK", "LIST", "HOST", "JOIN", "QUIT", "PART"} \cup HostOnly \cup TalkTypes) = {}
<1>1. DOMAIN Answered = {"lobcount", "whereto", "USER", "SQUADINFO", "GETINSIDER", "TIME", "GETBUDDY"}
  BY DEF Answered
<1>2. \A t \in DOMAIN Answered : Answered[t] \in FixedReply
  BY DEF Answered, FixedReply
<1>3. ASSUME NEW t \in Bare
      PROVE  t \notin {"NICK", "LIST", "HOST", "JOIN", "QUIT", "PART"} \cup HostOnly \cup TalkTypes
  <2>1. CASE t \in Ignored
    BY <2>1 DEF Ignored, HostOnly, TalkTypes
  <2>2. CASE t \in DOMAIN Answered
    BY <1>1, <2>2 DEF HostOnly, TalkTypes
  <2>3. CASE t \in {"SETCODEPAGE", "SETLOCALE"}
    BY <2>3 DEF HostOnly, TalkTypes
  <2>4. \/ t \in Ignored \/ t \in DOMAIN Answered
        \/ t \in {"SETCODEPAGE", "SETLOCALE"}
    BY DEF Bare
  <2> QED BY <2>1, <2>2, <2>3, <2>4
<1> QED BY <1>1, <1>2, <1>3

\* What the fields of a line are that fits a screen.
LEMMA FitsFields ==
    ASSUME NEW c, NEW l, Fits(c, l)
    PROVE  \/ /\ screen[c] = "lobby"
              /\ \/ l.type \in {"LIST", "QUIT"}
                 \/ l.type = "HOST" /\ l.game = c
                 \/ l.type = "JOIN" /\ l.game \in seen[c]
           \/ /\ screen[c] = "game"
              /\ \/ ToTable(l) /\ l.game = game[c] /\ l.nick = NoName
                 \/ l.type = "GAMEOPT" /\ l.nick \in Known
                 \/ l.type = "PART" /\ l.game = game[c]
                 \/ l.type \in {"STARTG", "TOPIC"} /\ game[c] = c /\ l.game = c
                 \/ l.type = "KICK" /\ game[c] = c /\ l.game = c /\ l.nick \in Conn \ {c}
           \/ /\ screen[c] \in {"lobby", "game"}
              /\ l.type \in Bare \/ (Naming(l) /\ l.nick \in Known)
<1>1. \A t, n, g : l = Line(t, n, g) => l.type = t /\ l.nick = n /\ l.game = g
  BY DEF Line
<1>2. CASE screen[c] = "lobby" /\ LobbyScreen(c, l)
  BY <1>1, <1>2 DEF LobbyScreen
<1>3. CASE screen[c] = "game" /\ GameScreen(c, l)
  BY <1>1, <1>3 DEF GameScreen
<1>4. CASE screen[c] \in {"lobby", "game"} /\ AnyScreen(l)
  BY <1>4 DEF AnyScreen
<1> QED BY <1>2, <1>3, <1>4 DEF Fits

\* What a player may say is a line that the server can read.
LEMMA FitsType ==
    ASSUME NEW c \in Conn, NEW l \in Lines, Fits(c, l), LobbyTypeOK
    PROVE  /\ l \in UpLine /\ Shows(c, l) \in Screens
           /\ l.type \in SaidType
<1>1. l \in [type: Uses, nick: Name, game: Name]
  BY DEF Lines
<1>2. Shows(c, l) \in Screens
  <2>1. screen[c] \in Screens
    BY DEF LobbyTypeOK
  <2> QED BY <2>1 DEF Shows, Screens
<1>3. l.type \in SaidType
  BY FitsFields DEF SaidType, HostOnly, TalkTypes, ToTable, Naming
<1>4. l.type \in {"KICK", "GETCODEPAGE", "GETLOCALE"} => l.nick \in Conn
  BY FitsFields, BareKinds DEF ToTable, Known, TalkTypes, HostOnly
<1>5. l.type # "NICK"
  BY <1>3, BareKinds DEF SaidType, HostOnly, TalkTypes
<1>6. l \in [type: SaidType \cup {"NICK"}, nick: Name, game: Name]
  BY <1>1, <1>3
<1> QED BY <1>2, <1>3, <1>4, <1>5, <1>6 DEF UpLine

\* What is done with a line is one of the server's commands.
LEMMA DispatchCommand ==
    ASSUME NEW c \in Conn, NEW l \in UpLine, Dispatch(c, l)
    PROVE  Command(c)
<1>1. l.nick \in Name /\ l.game \in Name /\ Nick = Conn
  BY OwnNickAssumption DEF UpLine
<1>2. l.type \in {"NICK", "KICK", "GETCODEPAGE", "GETLOCALE"} => l.nick \in Nick
  BY <1>1 DEF UpLine
<1>3. CASE l.type \in {"NICK", "KICK"}
  BY <1>1, <1>2, <1>3 DEF Dispatch, Command, Ignored, Answered
<1>4. CASE l.type \in {"GETCODEPAGE", "GETLOCALE"}
  <2>1. {l.nick} \in (SUBSET Nick) \ {{}}
    BY <1>2, <1>4
  <2>2. HandleGETCODEPAGE(c, {l.nick}) \/ HandleGETLOCALE(c, {l.nick})
    BY <1>4 DEF Dispatch, Ignored, Answered
  <2> QED BY <2>1, <2>2 DEF Command
<1>5. CASE l.type \in {"LIST", "QUIT"} \cup Ignored \cup {"SETCODEPAGE", "SETLOCALE"}
  BY <1>5 DEF Dispatch, Command, Ignored, Answered
<1>6. CASE l.type \in DOMAIN Answered
  <2>1. HandleFixed(c, Answered[l.type])
    BY <1>6 DEF Dispatch, Ignored, Answered
  <2>2. Answered[l.type] \in FixedReply
    BY <1>6 DEF Answered, FixedReply
  <2> QED BY <2>1, <2>2 DEF Command
<1>7. CASE l.type \in {"HOST", "JOIN", "TOPIC", "STARTG", "PART"}
  BY <1>1, <1>7 DEF Dispatch, Command, Ignored, Answered
<1>8. CASE l.type \in {"GAMEOPT", "PRIVMSG", "PAGE"}
  <2>1. l.nick # NoName => l.nick \in Nick
    BY <1>1 DEF Name
  <2>2. CASE l.nick = NoName
    BY <1>1, <1>8, <2>2 DEF Dispatch, Command, Ignored, Answered
  <2>3. CASE l.nick # NoName
    BY <1>8, <2>1, <2>3 DEF Dispatch, Command, Ignored, Answered
  <2> QED BY <2>2, <2>3
<1> QED BY <1>3, <1>4, <1>5, <1>6, <1>7, <1>8 DEF Dispatch

\* Every step is a step of the server's, or only of the players'.
LEMMA LobbyStep ==
    ASSUME LobbyTypeOK, LobbyNext
    PROVE  Next \/ UNCHANGED vars
<1>1. PICK c \in Conn : Play(c) \/ Serve(c)
  BY DEF LobbyNext
<1>2. CASE Login(c)
  BY <1>2 DEF Login, Next, Thread
<1>3. CASE Say(c) \/ Leave(c) \/ Read(c) \/ Stall(c)
  BY <1>3 DEF Say, Leave, Read, Stall
<1>4. CASE Handle(c)
  <2>1. Head(up[c]) \in UpLine
    BY <1>4 DEF Handle, LobbyTypeOK
  <2> QED BY <1>4, <2>1, DispatchCommand DEF Handle, Next
<1>5. CASE Chunk(c) \/ Unlock(c) \/ Fail(c) \/ Remove(c)
  BY <1>5 DEF Chunk, Unlock, Fail, Remove, Next, Thread
<1> QED BY <1>1, <1>2, <1>3, <1>4, <1>5 DEF Play, Serve

\* The line of the server's that a player is told its game by, and the one that
\* lists the games.
LEMMA ReadType ==
    ASSUME NEW l \in Msg
    PROVE  /\ l.type = "JOINGAME" => l.game \in Name
           /\ l.type = "326" => {g.game : g \in l.games} \in SUBSET Name
<1>1. l.type = "JOINGAME" => l \in GameLine
  BY DEF Msg, GameLine, ReplyLine, RosterLine, StartLine, ListLine, AnswerLine, Answer, FixedReply
<1>2. l.type = "326" => l \in ListLine
  BY DEF Msg, GameLine, ReplyLine, RosterLine, StartLine, ListLine, AnswerLine, Answer, FixedReply
<1>3. l.type = "JOINGAME" => l.game \in Name
  BY <1>1 DEF GameLine
<1>4. ASSUME l.type = "326" PROVE {g.game : g \in l.games} \in SUBSET Name
  <2>1. l.games \in SUBSET [game: Name, players: Nat]
    BY <1>2, <1>4 DEF ListLine
  <2> QED BY <2>1
<1> QED BY <1>3, <1>4

\* The steps of the players keep the types.
LEMMA PlayType ==
    ASSUME LobbyTypeOK, NEW c \in Conn, Play(c)
    PROVE  LobbyTypeOK'
<1> USE DEF LobbyTypeOK
<1>1. CASE Login(c)
  <2>1. Line("NICK", c, NoName) \in UpLine
    BY OwnNickAssumption DEF Line, UpLine, Name
  <2> QED BY <1>1, <2>1 DEF Login, Screens
<1>2. CASE Say(c)
  <2>1. PICK l \in Lines :
           /\ Fits(c, l)
           /\ up' = [up EXCEPT ![c] = Append(@, l)]
           /\ screen' = [screen EXCEPT ![c] = Shows(c, l)]
           /\ game' = IF Shows(c, l) = "lobby" THEN [game EXCEPT ![c] = NoName] ELSE game
           /\ ended' = (ended \/ l.type \in Ending)
           /\ spent' = [spent EXCEPT ![c] = IF l.type \in Last THEN MaxLines ELSE @ + 1]
    BY <1>2 DEF Say
  <2>2. l \in UpLine /\ Shows(c, l) \in Screens /\ up[c] \in Seq(UpLine)
    BY <2>1, FitsType
  <2>3. up' \in [Conn -> Seq(UpLine)] /\ screen' \in [Conn -> Screens]
    BY <2>1, <2>2
  <2>4. game' \in [Conn -> Name] /\ ended' \in BOOLEAN
    BY <2>1 DEF Name
  <2>5. UNCHANGED <<down, chunk, seen, stalled, strayed>> /\ spent' \in [Conn -> Nat]
    BY <1>2, <2>1, LinesAssumption DEF Say
  <2> QED BY <2>3, <2>4, <2>5
<1>3. CASE Leave(c)
  BY <1>3 DEF Leave, Screens
<1>4. CASE Read(c)
  <2> DEFINE l == Head(down[c])
  <2>1. down[c] \in Seq(Msg) /\ down[c] # <<>>
    BY <1>4 DEF Read
  <2>2. l \in Msg /\ Tail(down[c]) \in Seq(Msg)
    BY <2>1
  <2>3. down' \in [Conn -> Seq(Msg)]
    BY <1>4, <2>2 DEF Read
  <2>4. screen' \in [Conn -> Screens]
    BY <1>4 DEF Read, Screens
  <2>5. game' \in [Conn -> Name]
    <3>1. Enters(c, l) => l.game \in Name
      BY <2>2, ReadType DEF Enters
    <3> HIDE DEF l
    <3>2. game' = [game EXCEPT ![c] = IF Enters(c, l) THEN l.game
                                      ELSE IF Outs(c, l) THEN NoName ELSE @]
      BY <1>4 DEF Read, l
    <3> QED BY <3>1, <3>2 DEF Name
  <2>6. seen' \in [Conn -> SUBSET Name]
    <3>1. l.type = "326" => {g.game : g \in l.games} \in SUBSET Name
      BY <2>2, ReadType
    <3> HIDE DEF l
    <3>2. seen' = [seen EXCEPT ![c] = IF l.type = "326" THEN {g.game : g \in l.games} ELSE @]
      BY <1>4 DEF Read, l
    <3> QED BY <3>1, <3>2
  <2>7. UNCHANGED <<up, chunk, spent, stalled, ended, strayed>>
    BY <1>4 DEF Read
  <2> HIDE DEF l
  <2> QED BY <2>3, <2>4, <2>5, <2>6, <2>7
<1>5. CASE Stall(c)
  BY <1>5 DEF Stall, playerVars
<1> QED BY <1>1, <1>2, <1>3, <1>4, <1>5 DEF Play

\* And so do those of the server.
LEMMA ServeType ==
    ASSUME StateOK, LobbyTypeOK, NEW c \in Conn, Serve(c)
    PROVE  LobbyTypeOK'
<1> USE DEF LobbyTypeOK
<1>1. CASE Chunk(c)
  <2>1. PICK n \in Received(c) : chunk' = n
    BY <1>1 DEF Chunk
  <2>2. chunk' \in Nat
    BY <2>1 DEF Received
  <2> QED BY <1>1, <2>2 DEF Chunk, playerVars
<1>2. CASE Handle(c)
  <2>1. Head(up[c]) \in UpLine /\ Tail(up[c]) \in Seq(UpLine)
    BY <1>2 DEF Handle
  <2>2. Next
    BY <1>2, <2>1, DispatchCommand DEF Handle, Next
  <2>3. sent' \in [Conn -> Seq(Msg)]
    BY <2>2, NextSent DEF Sent, SentType
  <2>4. down' \in [Conn -> Seq(Msg)]
    <3>1. \A d \in Conn : down[d] \o sent'[d] \in Seq(Msg)
      BY <2>3
    <3>2. down' = [d \in Conn |-> IF screen[d] = "left" THEN <<>> ELSE down[d] \o sent'[d]]
      BY <1>2 DEF Handle
    <3> QED BY <3>1, <3>2
  <2>5. up' \in [Conn -> Seq(UpLine)] /\ chunk' \in Nat
    <3>1. \/ chunk' = chunk - 1 /\ up' = [up EXCEPT ![c] = Tail(up[c])]
          \/ chunk' = chunk /\ up' = up
      BY <1>2 DEF Handle
    <3>2. chunk > 0
      BY <1>2 DEF Handle
    <3>3. chunk' \in Nat
      BY <3>1, <3>2
    <3>4. up' \in [Conn -> Seq(UpLine)]
      BY <2>1, <3>1
    <3> QED BY <3>3, <3>4
  <2>6. UNCHANGED <<playerVars, stalled, ended>> /\ strayed' \in BOOLEAN
    BY <1>2 DEF Handle
  <2> QED BY <2>4, <2>5, <2>6 DEF playerVars
<1>3. CASE Unlock(c) \/ Fail(c) \/ Remove(c)
  BY <1>3 DEF Unlock, Fail, Remove, lobbyVars, playerVars
<1> QED BY <1>1, <1>2, <1>3 DEF Serve

\* The types of the lobby are kept, and each of its steps is one of the server's
\* or leaves the server alone.
LEMMA TypesStep == StateOK /\ LobbyTypeOK /\ [LobbyNext]_allVars => (StateOK /\ LobbyTypeOK)' /\ [Next]_vars
<1> SUFFICES ASSUME StateOK, LobbyTypeOK, [LobbyNext]_allVars
             PROVE  (StateOK /\ LobbyTypeOK)' /\ [Next]_vars
  OBVIOUS
<1>1. CASE UNCHANGED allVars
  BY <1>1, StateStep DEF allVars, lobbyVars, playerVars, LobbyTypeOK
<1>2. CASE LobbyNext
  <2>1. LobbyTypeOK'
    BY <1>2, PlayType, ServeType DEF LobbyNext
  <2> QED BY <1>2, <2>1, LobbyStep, StateStep
<1> QED BY <1>1, <1>2

\* So they hold throughout.
LEMMA LobbyInv == LobbySpec => Spec /\ [](StateOK /\ LobbyTypeOK)
<1>1. LobbyInit => Init
  BY DEF LobbyInit
<1>2. Init => StateOK
  BY ValueAssumption DEF Init, StateOK, Name, TopicStr
<1>3. LobbyInit => LobbyTypeOK
  <2>1. NoName \in Name /\ <<>> \in Seq(UpLine) /\ <<>> \in Seq(Msg) /\ "off" \in Screens
    BY DEF Name, Screens
  <2> SUFFICES ASSUME LobbyInit PROVE LobbyTypeOK
    OBVIOUS
  <2>2. up \in [Conn -> Seq(UpLine)] /\ down \in [Conn -> Seq(Msg)] /\ screen \in [Conn -> Screens]
    BY <2>1 DEF LobbyInit
  <2>3. game \in [Conn -> Name] /\ seen \in [Conn -> SUBSET Name] /\ spent \in [Conn -> Nat]
    BY <2>1 DEF LobbyInit
  <2>4. chunk \in Nat /\ stalled \subseteq Conn /\ ended \in BOOLEAN /\ strayed \in BOOLEAN
    BY DEF LobbyInit
  <2> QED BY <2>2, <2>3, <2>4 DEF LobbyTypeOK
<1> QED BY <1>1, <1>2, <1>3, TypesStep, PTL DEF LobbySpec, Spec

\* Whatever its players do, the lobby behaves as WolIrcServer, so that what is
\* proved of the server for any clients holds of it in the lobby.
THEOREM LobbyServes == LobbySpec => Spec
BY LobbyInv, PTL

\* Lines under way in either direction are lines of the protocol.
THEOREM LobbyTypeCorrect == LobbySpec => []LobbyTypeOK
BY LobbyInv, PTL
-----------------------------------------------------------------------------
(***************************************************************************)
(* What ties a player to the server.  Whoever has not left or changed game *)
(* by itself, and is not gone, knows its game as well as the lines under   *)
(* way let it:                                                             *)
(*   - in its stream up, a HOST or JOIN is the last line, for it waits for *)
(*     the answer, and a PART is not followed by a line only a host sends; *)
(*   - the answer is under way at most once, and then nothing is on its    *)
(*     way up, so that the screen "game" finds only lines of this game;    *)
(*   - the game it shows is the one it is in, unless it is cut loose, and  *)
(*     a player that shows its own game hosts it.                          *)
(***************************************************************************)
Asks      == {"HOST", "JOIN"}
GameTypes == HostOnly \cup TalkTypes \cup Bare

\* A line that is said of the game its sender is in.
Stays(l) == l.type = "PART" \/ (l.type \in {"PRIVMSG", "PAGE"} /\ l.nick = NoName)

\* Nobody asks for a game, or parts from one, with a line that only speaks.
LEMMA GameTypesOnly == GameTypes \cap (Asks \cup {"PART", "NICK", "LIST", "QUIT"}) = {}
BY BareKinds DEF GameTypes, HostOnly, TalkTypes, Asks

Says(c, T)  == \E i \in 1 .. Len(up[c]) : up[c][i].type \in T
Entering(c) == \E i \in 1 .. Len(down[c]) : Enters(c, down[c][i])
Outing(c)   == \E i \in 1 .. Len(down[c]) : Outs(c, down[c][i])
In(c, g)    == channel[c] \in {NoConn, g}

Stream(c) ==
    \A i, j \in 1 .. Len(up[c]) : i < j =>
        /\ up[c][i].type \notin Asks
        /\ up[c][i].type = "PART" => up[c][j].type \notin HostOnly

Asking(c) ==
    /\ Says(c, Asks) => screen[c] \in {"asking", "left"}
    /\ Entering(c) => screen[c] = "asking" /\ up[c] = <<>>
    /\ \A i, j \in 1 .. Len(down[c]) : Enters(c, down[c][i]) /\ Enters(c, down[c][j]) => i = j
    /\ screen[c] = "asking" => Says(c, Asks) \/ Entering(c)
    /\ screen[c] = "game" => \A i \in 1 .. Len(up[c]) : up[c][i].type \in GameTypes

\* The player c may be in the game g, which is its own only if it hosts.
MayPlay(c, g) == g \in Conn /\ In(c, g) /\ (g = c => hosting[c])

Staying(c) ==
    /\ \A i \in 1 .. Len(up[c]) : Stays(up[c][i]) => In(c, up[c][i].game)
    /\ \A i \in 1 .. Len(down[c]) : Enters(c, down[c][i]) => MayPlay(c, down[c][i].game)
    /\ screen[c] = "game" => MayPlay(c, game[c])
    /\ Says(c, HostOnly) => hosting[c]
    /\ channel[c] # NoConn => nick[c] = c

Player(c) == Stream(c) /\ Asking(c) /\ Staying(c)

\* While no host has strayed it also hears of every end of its stay, but for the
\* end of its host's thread.
Viewing(c) ==
    /\ (screen[c] = "lobby" \/ Says(c, Asks)) /\ channel[c] # NoConn => Says(c, {"PART"})
    /\ \A i \in 1 .. Len(down[c]) :
          Outs(c, down[c][i]) /\ (screen[c] = "game" \/ \E k \in 1 .. i - 1 : Enters(c, down[c][k]))
             => channel[c] = NoConn
    /\ screen[c] = "game" => channel[c] = game[c] \/ game[c] \in Freed \/ Outing(c)
    /\ \A i \in 1 .. Len(down[c]) : Enters(c, down[c][i]) =>
          \/ channel[c] = down[c][i].game \/ down[c][i].game \in Freed
          \/ \E j \in i + 1 .. Len(down[c]) : Outs(c, down[c][j])

\* The players that have not moved, the gone left out.
Steady == Conn \ (movers \cup Freed)

\* What the head of a stream, the rest of it and a stream with lines added to it
\* are made of.
LEMMA TailFacts ==
    ASSUME NEW S, NEW s \in Seq(S), s # <<>>
    PROVE  /\ Head(s) = s[1] /\ Len(s) \in Nat \ {0}
           /\ Tail(s) \in Seq(S) /\ Len(Tail(s)) = Len(s) - 1
           /\ \A i \in 1 .. Len(s) - 1 : Tail(s)[i] = s[i + 1]
OBVIOUS

\* The entries of one line of lines after another are those of the first, then those
\* of the second.
LEMMA ConcatFacts ==
    ASSUME NEW S, NEW s \in Seq(S), NEW t \in Seq(S)
    PROVE  /\ Len(s) \in Nat /\ Len(t) \in Nat
           /\ s \o t \in Seq(S) /\ Len(s \o t) = Len(s) + Len(t)
           /\ \A i \in 1 .. Len(s) : (s \o t)[i] = s[i]
           /\ \A i \in 1 .. Len(t) : (s \o t)[Len(s) + i] = t[i]
           /\ \A i \in 1 .. Len(s \o t) : i \in 1 .. Len(s) \/ i - Len(s) \in 1 .. Len(t)
           /\ \A i \in 1 .. Len(s \o t) : i \notin 1 .. Len(s) => (s \o t)[i] = t[i - Len(s)]
OBVIOUS
\* The first line of d's stream is handled; what is written to d is under way to it.
Popped(d) == up[d] # <<>> /\ up'[d] = Tail(up[d])
Heard(d)  == IF screen[d] = "left" THEN down'[d] \in {<<>>, down[d] \o sent'[d]}
             ELSE down'[d] = down[d] \o sent'[d]

\* The other lines keep their order.
LEMMA PopFacts ==
    ASSUME LobbyTypeOK, NEW d \in Conn, Popped(d)
    PROVE  /\ Len(up[d]) \in Nat \ {0} /\ Len(up'[d]) = Len(up[d]) - 1
           /\ Head(up[d]) = up[d][1]
           /\ \A i \in 1 .. Len(up'[d]) : i + 1 \in 1 .. Len(up[d]) /\ up'[d][i] = up[d][i + 1]
           /\ \A j \in 1 .. Len(up[d]) : j = 1 \/ j - 1 \in 1 .. Len(up'[d])
<1>1. up[d] \in Seq(UpLine) /\ up[d] # <<>> /\ up'[d] = Tail(up[d])
  BY DEF LobbyTypeOK, Popped
<1> QED BY <1>1, TailFacts

\* So a stream is as orderly without its first line.
LEMMA PopStream ==
    ASSUME LobbyTypeOK, NEW d \in Conn, Popped(d), Stream(d)
    PROVE  Stream(d)'
<1> SUFFICES ASSUME NEW i \in 1 .. Len(up'[d]), NEW j \in 1 .. Len(up'[d]), i < j
             PROVE  /\ up'[d][i].type \notin Asks
                    /\ up'[d][i].type = "PART" => up'[d][j].type \notin HostOnly
  BY DEF Stream
<1>1. i + 1 \in 1 .. Len(up[d]) /\ j + 1 \in 1 .. Len(up[d]) /\ i + 1 < j + 1
  BY PopFacts
<1>2. up'[d][i] = up[d][i + 1] /\ up'[d][j] = up[d][j + 1]
  BY PopFacts
<1> QED BY <1>1, <1>2 DEF Stream

\* Only the first line has gone from it.
LEMMA PopSays ==
    ASSUME LobbyTypeOK, NEW d \in Conn, Popped(d), NEW T
    PROVE  /\ Says(d, T)' => Says(d, T)
           /\ Says(d, T) => Head(up[d]).type \in T \/ Says(d, T)'
<1>1. ASSUME Says(d, T)' PROVE Says(d, T)
  BY <1>1, PopFacts DEF Says
<1>2. ASSUME Says(d, T), Head(up[d]).type \notin T PROVE Says(d, T)'
  <2>1. PICK j \in 1 .. Len(up[d]) : up[d][j].type \in T
    BY <1>2 DEF Says
  <2>2. j # 1
    BY <1>2, <2>1, PopFacts
  <2>3. j - 1 \in 1 .. Len(up'[d])
    BY <2>2, PopFacts
  <2>4. up'[d][j - 1] = up[d][(j - 1) + 1] /\ (j - 1) + 1 = j
    BY <2>3, PopFacts
  <2> QED BY <2>1, <2>3, <2>4 DEF Says
<1> QED BY <1>1, <1>2

\* What is written to a player follows what was under way to it.
LEMMA HeardFacts ==
    ASSUME LobbyTypeOK, NEW d \in Conn, sent'[d] \in Seq(Msg), down'[d] = down[d] \o sent'[d]
    PROVE  /\ Len(down[d]) \in Nat /\ Len(sent'[d]) \in Nat
           /\ Len(down'[d]) = Len(down[d]) + Len(sent'[d])
           /\ \A i \in 1 .. Len(down[d]) : i \in 1 .. Len(down'[d]) /\ down'[d][i] = down[d][i]
           /\ \A i \in 1 .. Len(sent'[d]) : /\ Len(down[d]) + i \in 1 .. Len(down'[d])
                                            /\ down'[d][Len(down[d]) + i] = sent'[d][i]
           /\ \A i \in 1 .. Len(down'[d]) :
                 \/ i \in 1 .. Len(down[d])
                 \/ /\ i > Len(down[d]) /\ i - Len(down[d]) \in 1 .. Len(sent'[d])
                    /\ down'[d][i] = sent'[d][i - Len(down[d])]
<1>1. down[d] \in Seq(Msg)
  BY DEF LobbyTypeOK
<1> DEFINE s == down[d]
           t == sent'[d]
           w == down'[d]
<1>2. s \in Seq(Msg) /\ t \in Seq(Msg) /\ w = s \o t
  BY <1>1
<1> HIDE DEF s, t, w
<1>3. /\ Len(s) \in Nat /\ Len(t) \in Nat /\ Len(w) = Len(s) + Len(t)
      /\ \A i \in 1 .. Len(s) : w[i] = s[i]
      /\ \A i \in 1 .. Len(t) : w[Len(s) + i] = t[i]
      /\ \A i \in 1 .. Len(w) : i \in 1 .. Len(s) \/ i - Len(s) \in 1 .. Len(t)
      /\ \A i \in 1 .. Len(w) : i \notin 1 .. Len(s) => w[i] = t[i - Len(s)]
  BY <1>2, ConcatFacts
<1>4. \A i \in 1 .. Len(s) : i \in 1 .. Len(w) /\ w[i] = s[i]
  BY <1>3
<1>5. \A i \in 1 .. Len(t) : Len(s) + i \in 1 .. Len(w) /\ w[Len(s) + i] = t[i]
  BY <1>3
<1>6. \A i \in 1 .. Len(w) :
         \/ i \in 1 .. Len(s)
         \/ i > Len(s) /\ i - Len(s) \in 1 .. Len(t) /\ w[i] = t[i - Len(s)]
  BY <1>3
<1> QED BY <1>3, <1>4, <1>5, <1>6 DEF s, t, w
\* What a step of the server's does to a player whose own HOST, JOIN or PART it is
\* not: at most it is cut loose, and it never hears that it entered a game.
KeptUp(d) == up'[d] = up[d] \/ (Popped(d) /\ Head(up[d]).type \notin Asks \cup {"PART"})

Bystands(d) ==
    /\ nick'[d] \in {nick[d], d}
    /\ hosting'[d] = hosting[d]
    /\ channel'[d] \in {channel[d], NoConn}
    /\ \A i \in 1 .. Len(sent'[d]) : ~Enters(d, sent'[d][i])

\* If it is cut loose it hears so, but for the end of its host's thread.
Told(d) ==
    /\ (\E i \in 1 .. Len(sent'[d]) : Outs(d, sent'[d][i])) => channel'[d] = NoConn
    /\ channel'[d] # channel[d] =>
          (\E i \in 1 .. Len(sent'[d]) : Outs(d, sent'[d][i])) \/ channel[d] \in Freed'

\* What is left on its way up was on its way before.
LEMMA KeptUpFacts ==
    ASSUME LobbyTypeOK, NEW d \in Conn, KeptUp(d)
    PROVE  /\ Says(d, Asks)' <=> Says(d, Asks)
           /\ Says(d, {"PART"})' <=> Says(d, {"PART"})
           /\ Says(d, HostOnly)' => Says(d, HostOnly)
           /\ \A i \in 1 .. Len(up'[d]) : \E j \in 1 .. Len(up[d]) : up'[d][i] = up[d][j]
           /\ up[d] = <<>> => up'[d] = <<>>
           /\ Stream(d) => Stream(d)'
<1>1. CASE up'[d] = up[d]
  BY <1>1 DEF Says, Stream
<1>2. CASE Popped(d) /\ Head(up[d]).type \notin Asks \cup {"PART"}
  <2>1. Says(d, Asks)' <=> Says(d, Asks)
    BY <1>2, PopSays
  <2>2. Says(d, {"PART"})' <=> Says(d, {"PART"})
    BY <1>2, PopSays
  <2>3. Says(d, HostOnly)' => Says(d, HostOnly)
    BY <1>2, PopSays
  <2>4. \A i \in 1 .. Len(up'[d]) : \E j \in 1 .. Len(up[d]) : up'[d][i] = up[d][j]
    BY <1>2, PopFacts
  <2>5. up[d] # <<>>
    BY <1>2 DEF Popped
  <2>6. Stream(d) => Stream(d)'
    BY <1>2, PopStream
  <2> QED BY <2>1, <2>2, <2>3, <2>4, <2>5, <2>6
<1> QED BY <1>1, <1>2 DEF KeptUp

\* What it hears of entering a game it was to hear before.
LEMMA HeardEnters ==
    ASSUME LobbyTypeOK, SentType', NEW d \in Conn, Heard(d),
           \A i \in 1 .. Len(sent'[d]) : ~Enters(d, sent'[d][i])
    PROVE  /\ \A i \in 1 .. Len(down'[d]) : Enters(d, down'[d][i]) =>
                 i \in 1 .. Len(down[d]) /\ down'[d][i] = down[d][i]
           /\ screen[d] # "left" => \A i \in 1 .. Len(down[d]) :
                 i \in 1 .. Len(down'[d]) /\ down'[d][i] = down[d][i]
<1>1. CASE down'[d] = down[d] \o sent'[d]
  <2>1. sent'[d] \in Seq(Msg)
    BY DEF SentType
  <2> QED BY <1>1, <2>1, HeardFacts
<1>2. CASE screen[d] = "left" /\ down'[d] = <<>>
  BY <1>2
<1> QED BY <1>1, <1>2 DEF Heard

\* It still knows its game.
LEMMA BystanderPlays ==
    ASSUME LobbyTypeOK, SentType', NEW d \in Conn, Player(d), Bystands(d), KeptUp(d), Heard(d),
           screen'[d] = screen[d], game'[d] = game[d]
    PROVE  Player(d)'
<1>1. /\ \A i \in 1 .. Len(down'[d]) : Enters(d, down'[d][i]) =>
            i \in 1 .. Len(down[d]) /\ down'[d][i] = down[d][i]
      /\ screen[d] # "left" => \A i \in 1 .. Len(down[d]) :
            i \in 1 .. Len(down'[d]) /\ down'[d][i] = down[d][i]
  BY HeardEnters DEF Bystands
<1>2. Stream(d)'
  BY KeptUpFacts DEF Player
<1>3. Entering(d)' => Entering(d)
  BY <1>1 DEF Entering
<1>4. screen[d] # "left" /\ Entering(d) => Entering(d)'
  BY <1>1 DEF Entering
<1>5. Asking(d)'
  <2>1. Says(d, Asks)' => screen'[d] \in {"asking", "left"}
    BY KeptUpFacts DEF Player, Asking
  <2>2. Entering(d)' => screen'[d] = "asking" /\ up'[d] = <<>>
    BY <1>3, KeptUpFacts DEF Player, Asking
  <2>3. \A i, j \in 1 .. Len(down'[d]) :
           Enters(d, down'[d][i]) /\ Enters(d, down'[d][j]) => i = j
    BY <1>1 DEF Player, Asking
  <2>4. screen'[d] = "asking" => Says(d, Asks)' \/ Entering(d)'
    BY <1>4, KeptUpFacts DEF Player, Asking
  <2>5. screen'[d] = "game" => \A i \in 1 .. Len(up'[d]) : up'[d][i].type \in GameTypes
    BY KeptUpFacts DEF Player, Asking
  <2> QED BY <2>1, <2>2, <2>3, <2>4, <2>5 DEF Asking
<1>6. Staying(d)'
  <2>1. \A g : In(d, g) => channel'[d] \in {NoConn, g}
    BY DEF Bystands, In
  <2>2. \A g : MayPlay(d, g) =>
                 g \in Conn /\ channel'[d] \in {NoConn, g} /\ (g = d => hosting'[d])
    BY <2>1 DEF MayPlay, Bystands
  <2>3. \A i \in 1 .. Len(up'[d]) :
           Stays(up'[d][i]) => channel'[d] \in {NoConn, up'[d][i].game}
    BY <2>1, KeptUpFacts DEF Player, Staying
  <2>4. \A i \in 1 .. Len(down'[d]) : Enters(d, down'[d][i]) =>
           LET g == down'[d][i].game
           IN  g \in Conn /\ channel'[d] \in {NoConn, g} /\ (g = d => hosting'[d])
    BY <1>1, <2>2 DEF Player, Staying
  <2>5. screen'[d] = "game" =>
           LET g == game'[d]
           IN  g \in Conn /\ channel'[d] \in {NoConn, g} /\ (g = d => hosting'[d])
    BY <2>2 DEF Player, Staying
  <2>6. Says(d, HostOnly)' => hosting'[d]
    BY KeptUpFacts DEF Player, Staying, Bystands
  <2>7. channel'[d] # NoConn => nick'[d] = d
    BY DEF Player, Staying, Bystands
  <2> QED BY <2>3, <2>4, <2>5, <2>6, <2>7 DEF Staying, MayPlay, In
<1> QED BY <1>2, <1>5, <1>6 DEF Player

\* And it has heard, or is to hear, of what became of its stay.
LEMMA BystanderViews ==
    ASSUME LobbyTypeOK, SentType', NEW d \in Conn, Player(d), Bystands(d), KeptUp(d), Heard(d),
           screen'[d] = screen[d], game'[d] = game[d],
           Viewing(d), Told(d), Freed \subseteq Freed'
    PROVE  Viewing(d)'
<1>1. /\ \A i \in 1 .. Len(down'[d]) : Enters(d, down'[d][i]) =>
            i \in 1 .. Len(down[d]) /\ down'[d][i] = down[d][i]
      /\ screen[d] # "left" => \A i \in 1 .. Len(down[d]) :
            i \in 1 .. Len(down'[d]) /\ down'[d][i] = down[d][i]
  BY HeardEnters DEF Bystands
<1>2. channel'[d] # NoConn => channel'[d] = channel[d]
  BY DEF Bystands
<1>3. (screen'[d] = "lobby" \/ Says(d, Asks)') /\ channel'[d] # NoConn => Says(d, {"PART"})'
  BY <1>2, KeptUpFacts DEF Viewing
<1>4. CASE screen[d] = "left" /\ down'[d] = <<>>
  <2>1. Len(down'[d]) = 0
    BY <1>4
  <2> QED BY <1>3, <1>4, <2>1 DEF Viewing
<1>5. CASE down'[d] = down[d] \o sent'[d]
  <2> DEFINE m == Len(down[d])
             n == Len(sent'[d])
             w == down'[d]
  <2>1. /\ m \in Nat /\ n \in Nat /\ Len(w) = m + n
        /\ \A i \in 1 .. m : i \in 1 .. Len(w) /\ w[i] = down[d][i]
        /\ \A i \in 1 .. n : m + i \in 1 .. Len(w) /\ w[m + i] = sent'[d][i]
        /\ \A i \in 1 .. Len(w) : \/ i \in 1 .. m
                                  \/ i > m /\ i - m \in 1 .. n /\ w[i] = sent'[d][i - m]
    <3>1. sent'[d] \in Seq(Msg)
      BY DEF SentType
    <3> QED BY <1>5, <3>1, HeardFacts
  <2>2. \A i \in 1 .. Len(w) : Enters(d, w[i]) => i \in 1 .. m /\ w[i] = down[d][i]
    BY <1>1
  <2>3. (\E i \in 1 .. n : Outs(d, sent'[d][i])) =>
           \E i \in m + 1 .. Len(w) : Outs(d, w[i])
    <3>1. ASSUME NEW i \in 1 .. n, Outs(d, sent'[d][i])
          PROVE  m + i \in m + 1 .. Len(w) /\ Outs(d, w[m + i])
      <4> HIDE DEF m, n, w
      <4>1. m + i \in m + 1 .. Len(w)
        BY <2>1
      <4>2. w[m + i] = sent'[d][i]
        BY <2>1
      <4> QED BY <3>1, <4>1, <4>2
    <3> HIDE DEF m, n, w
    <3> QED BY <3>1
  <2> HIDE DEF m, n, w
  <2>4. ASSUME NEW i \in 1 .. Len(w), Outs(d, w[i]),
               screen[d] = "game" \/ \E k \in 1 .. i - 1 : Enters(d, w[k])
        PROVE  channel'[d] = NoConn
    <3>1. CASE i \in 1 .. m
      <4>1. Outs(d, down[d][i])
        BY <2>1, <2>4, <3>1
      <4>2. \A k \in 1 .. i - 1 : k \in 1 .. Len(w)
        BY <2>1, <3>1
      <4>3. screen[d] = "game" \/ \E k \in 1 .. i - 1 : Enters(d, down[d][k])
        BY <2>2, <2>4, <4>2
      <4>4. channel[d] = NoConn
        BY <3>1, <4>1, <4>3 DEF Viewing, m
      <4> QED BY <1>2, <4>4
    <3>2. CASE i - m \in 1 .. n /\ w[i] = sent'[d][i - m]
      BY <2>4, <3>2 DEF Told, n
    <3> QED BY <2>1, <3>1, <3>2
  <2>5. ASSUME NEW g, NEW i \in 0 .. m,
               \/ channel[d] = g \/ g \in Freed
               \/ \E j \in i + 1 .. m : Outs(d, down[d][j])
        PROVE  \/ channel'[d] = g \/ g \in Freed'
               \/ \E j \in i + 1 .. Len(w) : Outs(d, w[j])
    <3>1. CASE channel[d] = g
      <4>1. (\E j \in m + 1 .. Len(w) : Outs(d, w[j])) => \E j \in i + 1 .. Len(w) : Outs(d, w[j])
        BY <2>1
      <4> QED BY <2>3, <3>1, <4>1 DEF Told, n
    <3>2. CASE \E j \in i + 1 .. m : Outs(d, down[d][j])
      <4>1. PICK j \in i + 1 .. m : Outs(d, down[d][j])
        BY <3>2
      <4>2. j \in 1 .. m /\ j \in i + 1 .. Len(w)
        BY <2>1, <4>1
      <4> QED BY <2>1, <4>1, <4>2
    <3> QED BY <2>5, <3>1, <3>2
  <2>6. screen[d] = "game" =>
           channel'[d] = game[d] \/ game[d] \in Freed' \/ \E j \in 1 .. Len(w) : Outs(d, w[j])
    <3>1. screen[d] = "game" => \/ channel[d] = game[d] \/ game[d] \in Freed
                                \/ \E j \in 0 + 1 .. m : Outs(d, down[d][j])
      BY DEF Viewing, Outing, m
    <3>2. 0 \in 0 .. m /\ 0 + 1 = 1
      BY <2>1
    <3> QED BY <2>5, <3>1, <3>2
  <2>7. ASSUME NEW i \in 1 .. Len(w), Enters(d, w[i])
        PROVE  \/ channel'[d] = w[i].game \/ w[i].game \in Freed'
               \/ \E j \in i + 1 .. Len(w) : Outs(d, w[j])
    <3>1. i \in 1 .. m /\ w[i] = down[d][i]
      BY <2>2, <2>7
    <3>2. \/ channel[d] = w[i].game \/ w[i].game \in Freed
          \/ \E j \in i + 1 .. m : Outs(d, down[d][j])
      BY <2>7, <3>1 DEF Viewing, m
    <3>3. i \in 0 .. m
      BY <2>1, <3>1
    <3> QED BY <2>5, <3>2, <3>3
  <2> QED BY <1>3, <2>4, <2>6, <2>7 DEF Viewing, Outing, w
<1> QED BY <1>4, <1>5 DEF Heard

-----------------------------------------------------------------------------
(***************************************************************************)
(* Every connection has its own name or none, and its lines name the       *)
(* sender's game where only a host may send them; nothing is said for it   *)
(* before it is made.                                                      *)
(***************************************************************************)
LineOK(c, l) ==
    /\ l.type = "NICK" => l.nick = c
    /\ l.type \in {"HOST"} \cup HostOnly => l.game = c
    /\ l.type = "KICK" => l.nick \in Conn \ {c}

OwnName(c) ==
    /\ nick[c] \in {c, NoName}
    /\ hosting[c] => nick[c] = c /\ channelName[c] = c
    /\ \A i \in 1 .. Len(up[c]) : LineOK(c, up[c][i])
    /\ gameId[c] # 0 => nick[c] = c \/ (up[c] # <<>> /\ Head(up[c]).type = "NICK")

Begins(c) == IF gameId[c] = 0 THEN screen[c] = "off" /\ up[c] = <<>> /\ c \notin movers
             ELSE screen[c] # "off"

\* What a stream with one more line is made of.
LEMMA AppendFacts ==
    ASSUME NEW S, NEW s \in Seq(S), NEW x \in S
    PROVE  /\ Len(s) \in Nat /\ Len(Append(s, x)) = Len(s) + 1
           /\ \A i \in 1 .. Len(s) : Append(s, x)[i] = s[i]
           /\ Append(s, x)[Len(s) + 1] = x
           /\ Append(s, x) # <<>>
           /\ s # <<>> => Head(Append(s, x)) = Head(s)
<1>1. /\ Len(s) \in Nat /\ Append(s, x) \in Seq(S) /\ Len(Append(s, x)) = Len(s) + 1
      /\ \A i \in 1 .. Len(s) : Append(s, x)[i] = s[i]
      /\ Append(s, x)[Len(s) + 1] = x
  OBVIOUS
<1> DEFINE t == Append(s, x)
<1>2. t # <<>>
  BY <1>1
<1>3. ASSUME s # <<>> PROVE Head(t) = Head(s)
  <2>1. Len(s) >= 1
    BY <1>1, <1>3
  <2>2. Head(t) = t[1] /\ Head(s) = s[1] /\ t[1] = s[1]
    BY <1>1, <2>1
  <2> QED BY <2>2
<1> QED BY <1>1, <1>2, <1>3

\* A player that connects knows its game: none.
LEMMA LoginPlays ==
    ASSUME IInv, LobbyTypeOK, NEW c \in Conn, Begins(c), OwnName(c), Player(c), Login(c)
    PROVE  (OwnName(c) /\ Begins(c) /\ Player(c) /\ Viewing(c))'
<1>1. gameId[c] = 0 /\ up[c] = <<>> /\ ~hosting[c] /\ channel[c] = NoConn /\ ~Entering(c)
  BY DEF Login, Accept, Begins, IInv, Fresh, Player, Asking
<1>2. /\ up'[c] = <<Line("NICK", c, NoName)>> /\ screen'[c] = "lobby"
      /\ gameId'[c] = nextGameId /\ nextGameId # 0
      /\ down' = down
      /\ UNCHANGED <<nick, hosting, channelName, channel>>
  <2>1. up \in [Conn -> Seq(UpLine)] /\ screen \in [Conn -> Screens]
        /\ gameId \in [Conn -> Nat] /\ nextGameId \in Nat \ {0}
    BY DEF LobbyTypeOK, IInv, StateOK
  <2> QED BY <2>1 DEF Login, Accept, userVars, gameVars
<1>3. Len(up'[c]) = 1 /\ up'[c][1] = Line("NICK", c, NoName) /\ Head(up'[c]) = up'[c][1]
      /\ up'[c] # <<>>
  BY <1>2
<1>4. \A i \in 1 .. Len(up'[c]) : up'[c][i].type = "NICK" /\ up'[c][i].nick = c
  BY <1>3 DEF Line
<1>5. OwnName(c)'
  BY <1>1, <1>2, <1>3, <1>4 DEF OwnName, LineOK, HostOnly
<1>6. Begins(c)'
  BY <1>2 DEF Begins
<1>7. Stream(c)'
  BY <1>3 DEF Stream
<1>8. \A i \in 1 .. Len(down'[c]) : ~Enters(c, down'[c][i])
  BY <1>1, <1>2 DEF Entering
<1>9. Asking(c)'
  BY <1>2, <1>4, <1>8 DEF Asking, Says, Asks, Entering
<1>10. Staying(c)'
  BY <1>1, <1>2, <1>4, <1>8 DEF Staying, Says, Stays, HostOnly
<1>11. Viewing(c)'
  BY <1>1, <1>2, <1>8 DEF Viewing
<1> QED BY <1>5, <1>6, <1>7, <1>9, <1>10, <1>11 DEF Player

\* A player that sends what its screen allows knows its game as before.
LEMMA SayPlays ==
    ASSUME LobbyTypeOK, NEW c \in Conn, OwnName(c), Begins(c), Say(c)
    PROVE  /\ OwnName(c)' /\ Begins(c)'
           /\ Player(c) => Player(c)'
           /\ Player(c) /\ Viewing(c) => Viewing(c)'
<1>1. PICK l \in Lines :
          /\ Fits(c, l)
          /\ up' = [up EXCEPT ![c] = Append(@, l)]
          /\ screen' = [screen EXCEPT ![c] = Shows(c, l)]
          /\ game' = IF Shows(c, l) = "lobby" THEN [game EXCEPT ![c] = NoName] ELSE game
  BY DEF Say
<1> DEFINE s == Shows(c, l)
           n == Len(up[c])
<1>2. /\ up' = [up EXCEPT ![c] = Append(@, l)]
      /\ screen' = [screen EXCEPT ![c] = s]
      /\ game' = IF s = "lobby" THEN [game EXCEPT ![c] = NoName] ELSE game
  BY <1>1
<1>3. l \in UpLine /\ s \in Screens /\ screen[c] \in {"lobby", "game"}
  BY <1>1, FitsType, FitsFields
<1>4. l.type \in GameTypes \/ ~(screen[c] = "game" /\ s = "game")
  BY <1>1, FitsFields DEF Shows, ToTable, Naming, GameTypes, HostOnly, TalkTypes
<1>5. /\ s = "asking" <=> l.type \in Asks
      /\ s = "game" => screen[c] = "game" /\ game'[c] = game[c]
      /\ s = "lobby" => l.type = "PART" \/ screen[c] = "lobby"
  <2>1. s = "game" => game' = game
    BY <1>2
  <2> QED BY <1>3, <2>1 DEF Shows, Asks
<1>6. /\ l.type \in Asks => screen[c] = "lobby"
      /\ l.type \in HostOnly => screen[c] = "game" /\ game[c] = c
      /\ Stays(l) => screen[c] = "game" /\ l.game = game[c]
  BY <1>1, FitsFields, BareKinds DEF ToTable, Naming, HostOnly, TalkTypes, Asks, Stays
<1>7. s # "off"
  BY <1>3 DEF Shows
<1> HIDE DEF s
<1>8. /\ up[c] \in Seq(UpLine) /\ up'[c] = Append(up[c], l) /\ screen'[c] = s
      /\ s # "lobby" => game'[c] = game[c]
  BY <1>2 DEF LobbyTypeOK
<1>9. /\ n \in Nat /\ Len(up'[c]) = n + 1
      /\ \A i \in 1 .. n : up'[c][i] = up[c][i]
      /\ up'[c][n + 1] = l
  BY <1>3, <1>8, AppendFacts
<1>10. /\ up'[c] # <<>>
       /\ up[c] # <<>> => Head(up'[c]) = Head(up[c])
  BY <1>3, <1>8, AppendFacts
<1>11. UNCHANGED <<down, nick, hosting, channel, channelName, gameId, connections, movers>>
  BY DEF Say, vars, connVars, userVars, gameVars
<1>12. screen[c] \in {"lobby", "game"} /\ s # "off"
  BY <1>3, <1>7
<1> HIDE DEF n
<1>13. \A i \in 1 .. Len(up'[c]) : (i \in 1 .. n /\ up'[c][i] = up[c][i]) \/ (i = n + 1 /\ up'[c][i] = l)
  <2> SUFFICES ASSUME NEW i \in 1 .. Len(up'[c])
               PROVE  (i \in 1 .. n /\ up'[c][i] = up[c][i]) \/ (i = n + 1 /\ up'[c][i] = l)
    OBVIOUS
  <2>1. i \in 1 .. n \/ i = n + 1
    BY <1>9
  <2> QED BY <1>9, <2>1
<1>14. \A i \in 1 .. n : i \in 1 .. Len(up'[c]) /\ up'[c][i] = up[c][i]
  BY <1>9
<1>15. n + 1 \in 1 .. Len(up'[c])
  BY <1>9
<1>16. LineOK(c, l)
  <2>1. l.type # "NICK"
    BY <1>1, FitsFields, BareKinds DEF ToTable, Naming
  <2>2. l.type \in {"HOST"} \cup HostOnly => l.game = c
    BY <1>1, FitsFields, BareKinds DEF ToTable, Naming, HostOnly, TalkTypes
  <2>3. l.type = "KICK" => l.nick \in Conn \ {c}
    BY <1>1, FitsFields, BareKinds DEF ToTable, Naming, HostOnly
  <2> QED BY <2>1, <2>2, <2>3 DEF LineOK
<1>17. OwnName(c)'
  <2>1. \A i \in 1 .. Len(up'[c]) : LineOK(c, up'[c][i])
    BY <1>13, <1>16 DEF OwnName, n
  <2>2. gameId[c] # 0 => nick[c] = c \/ (up'[c] # <<>> /\ Head(up'[c]).type = "NICK")
    BY <1>10 DEF OwnName
  <2>3. (\A i \in 1 .. Len(up[c]) : LineOK(c, up[c][i]))'
    BY <2>1 DEF LineOK, HostOnly
  <2> QED BY <1>11, <2>2, <2>3 DEF OwnName
<1>18. Begins(c)'
  BY <1>8, <1>11, <1>12 DEF Begins
<1>19. ASSUME NEW T PROVE Says(c, T)' <=> Says(c, T) \/ l.type \in T
  BY <1>9, <1>13, <1>14, <1>15 DEF Says, n
<1>20. ASSUME Player(c) PROVE Player(c)'
  <2>1. ~Says(c, Asks) /\ ~Entering(c)
    BY <1>12, <1>20 DEF Player, Asking
  <2>2. screen[c] = "game" => \A i \in 1 .. n : up[c][i].type \in GameTypes
    BY <1>20 DEF Player, Asking, n
  <2>3. Stream(c)'
    <3> SUFFICES ASSUME NEW i \in 1 .. Len(up'[c]), NEW j \in 1 .. Len(up'[c]), i < j
                 PROVE  /\ up'[c][i].type \notin Asks
                        /\ up'[c][i].type = "PART" => up'[c][j].type \notin HostOnly
      BY DEF Stream
    <3>1. i \in 1 .. n /\ up'[c][i] = up[c][i]
      BY <1>9
    <3>2. up[c][i].type \notin Asks
      BY <2>1, <3>1 DEF Says, n
    <3>3. CASE j \in 1 .. n /\ up'[c][j] = up[c][j]
      BY <1>20, <3>1, <3>3 DEF Player, Stream, n
    <3>4. CASE up'[c][j] = l
      <4> QED BY <1>6, <2>2, <3>1, <3>2, <3>4, GameTypesOnly
    <3> QED BY <1>13, <3>3, <3>4
  <2>4. Asking(c)'
    <3>1. l.type \in Asks <=> s = "asking"
      BY <1>5
    <3>2. s = "game" => screen[c] = "game" /\ l.type \in GameTypes
      BY <1>4, <1>5
    <3>3. ~Entering(c)' /\ \A i \in 1 .. Len(down'[c]) : ~Enters(c, down'[c][i])
      BY <1>11, <2>1 DEF Entering
    <3>4. screen'[c] = "game" => \A i \in 1 .. Len(up'[c]) : up'[c][i].type \in GameTypes
      BY <1>8, <1>13, <2>2, <3>2
    <3>5. Says(c, Asks)' <=> s = "asking"
      BY <1>19, <2>1, <3>1
    <3> QED BY <1>8, <3>3, <3>4, <3>5 DEF Asking
  <2>5. Staying(c)'
    <3>1. screen[c] = "game" => In(c, game[c]) /\ (game[c] = c => hosting[c]) /\ game[c] \in Conn
      BY <1>20 DEF Player, Staying, MayPlay
    <3>2. \A i \in 1 .. Len(up'[c]) : Stays(up'[c][i]) => In(c, up'[c][i].game)
      <4> QED BY <1>13, <1>6, <1>20, <3>1 DEF Player, Staying, n
    <3>3. \A i \in 1 .. Len(down[c]) : ~Enters(c, down[c][i])
      BY <2>1 DEF Entering
    <3>4. s = "game" => screen[c] = "game" /\ game'[c] = game[c]
      BY <1>5
    <3>5. Says(c, HostOnly)' => hosting[c]
      <4>1. l.type \in HostOnly => screen[c] = "game" /\ game[c] = c
        BY <1>6
      <4>2. Says(c, HostOnly)' <=> Says(c, HostOnly) \/ l.type \in HostOnly
        BY <1>19
      <4> QED BY <1>20, <3>1, <4>1, <4>2 DEF Player, Staying
    <3>6. channel[c] # NoConn => nick[c] = c
      BY <1>20 DEF Player, Staying
    <3> QED BY <1>8, <1>11, <3>1, <3>2, <3>3, <3>4, <3>5, <3>6 DEF Staying, MayPlay, In
  <2> QED BY <2>3, <2>4, <2>5 DEF Player
<1>21. ASSUME Player(c), Viewing(c) PROVE Viewing(c)'
  <2>1. ~Says(c, Asks) /\ \A i \in 1 .. Len(down[c]) : ~Enters(c, down[c][i])
    BY <1>12, <1>21 DEF Player, Asking, Entering
  <2>2. \/ screen[c] = "lobby"
        \/ l.type = "PART"
        \/ s # "lobby" /\ l.type \notin Asks
    BY <1>5, <1>6
  <2>3. Says(c, {"PART"})' <=> Says(c, {"PART"}) \/ l.type \in {"PART"}
    BY <1>19
  <2>4. Says(c, Asks)' <=> Says(c, Asks) \/ l.type \in Asks
    BY <1>19
  <2>5. (screen'[c] = "lobby" \/ Says(c, Asks)') /\ channel[c] # NoConn => Says(c, {"PART"})'
    BY <1>8, <1>21, <2>1, <2>2, <2>3, <2>4 DEF Viewing
  <2>6. screen'[c] = "game" => screen[c] = "game" /\ game'[c] = game[c]
    BY <1>8, <1>5
  <2>7. Freed' = Freed
    BY <1>11 DEF Freed, Live
  <2> QED BY <1>11, <1>21, <2>1, <2>5, <2>6, <2>7 DEF Viewing, Outing
<1> QED BY <1>17, <1>18, <1>20, <1>21
\* So does one that leaves.
LEMMA LeavePlays ==
    ASSUME LobbyTypeOK, NEW c \in Conn, OwnName(c), Begins(c), Leave(c)
    PROVE  /\ OwnName(c)' /\ Begins(c)'
           /\ Player(c) => Player(c)'
           /\ Player(c) /\ Viewing(c) => Viewing(c)'
<1>1. UNCHANGED <<up, nick, hosting, channel, channelName, gameId, connections, movers, game>>
  BY DEF Leave, vars, connVars, userVars, gameVars
<1>2. screen'[c] = "left" /\ down'[c] = <<>> /\ screen[c] # "off"
  BY DEF Leave, LobbyTypeOK
<1>3. Len(down'[c]) = 0
  BY <1>2
<1>4. OwnName(c)' /\ Begins(c)'
  BY <1>1, <1>2 DEF OwnName, LineOK, Begins
<1>5. ASSUME Player(c) PROVE Player(c)'
  <2>1. Stream(c)'
    BY <1>1, <1>5 DEF Player, Stream
  <2>2. Asking(c)'
    BY <1>1, <1>2, <1>3, <1>5 DEF Player, Asking, Says, Entering
  <2>3. Staying(c)'
    BY <1>1, <1>2, <1>3, <1>5 DEF Player, Staying, Says, In
  <2> QED BY <2>1, <2>2, <2>3 DEF Player
<1>6. ASSUME Viewing(c) PROVE Viewing(c)'
  BY <1>1, <1>2, <1>3, <1>6 DEF Viewing, Says
<1> QED BY <1>4, <1>5, <1>6

\* And one that reads what it was sent.
LEMMA ReadPlays ==
    ASSUME LobbyTypeOK, NEW c \in Conn, OwnName(c), Begins(c), Read(c),
           gameId[c] = 0 => Player(c)
    PROVE  /\ OwnName(c)' /\ Begins(c)'
           /\ Player(c) => Player(c)'
           /\ Player(c) /\ Viewing(c) => Viewing(c)'
<1> DEFINE w == down[c]
           l == w[1]
<1>1. UNCHANGED <<up, nick, hosting, channel, channelName, gameId, connections, movers>>
  BY DEF Read, vars, connVars, userVars, gameVars
<1>2. /\ Head(w) = l /\ Len(w) \in Nat \ {0} /\ Len(down'[c]) = Len(w) - 1
      /\ \A i \in 1 .. Len(w) - 1 : down'[c][i] = w[i + 1]
  <2>1. w \in Seq(Msg) /\ w # <<>> /\ down'[c] = Tail(w)
    BY DEF Read, LobbyTypeOK
  <2> QED BY <2>1, TailFacts
<1>3. screen'[c] = IF screen[c] = "left" THEN "left" ELSE IF Enters(c, l) THEN "game"
                   ELSE IF Outs(c, l) /\ screen[c] = "game" THEN "lobby" ELSE screen[c]
  BY <1>2 DEF Read, LobbyTypeOK
<1>4. game'[c] = IF Enters(c, l) THEN l.game ELSE IF Outs(c, l) THEN NoName ELSE game[c]
  BY <1>2 DEF Read, LobbyTypeOK
<1>5. ~(Enters(c, l) /\ Outs(c, l))
  BY DEF Enters, Outs
<1>6. \A i \in 1 .. Len(down'[c]) : i + 1 \in 2 .. Len(w) /\ down'[c][i] = w[i + 1]
  BY <1>2
<1>7. \A j \in 2 .. Len(w) : j - 1 \in 1 .. Len(down'[c]) /\ down'[c][j - 1] = w[j]
  BY <1>2
<1>8. 1 \in 1 .. Len(w) /\ \A j \in 1 .. Len(w) : j = 1 \/ j \in 2 .. Len(w)
  BY <1>2
<1>9. \A j \in 2 .. Len(w) : j \in 1 .. Len(w) /\ j # 1
  BY <1>2
<1>10. OwnName(c)' /\ Begins(c)'
  <2>1. OwnName(c)'
    BY <1>1 DEF OwnName, LineOK
  <2>2. CASE gameId[c] = 0
    <3>1. screen[c] = "off" /\ ~Entering(c)
      BY <2>2 DEF Begins, Player, Asking
    <3>2. ~Enters(c, l)
      BY <1>8, <3>1 DEF Entering
    <3> HIDE DEF l
    <3> QED BY <1>1, <1>3, <2>1, <2>2, <3>1, <3>2 DEF Begins
  <2>3. CASE gameId[c] # 0
    <3> HIDE DEF l
    <3>1. screen'[c] # "off"
      BY <1>3, <2>3 DEF Begins
    <3> QED BY <1>1, <2>1, <2>3, <3>1 DEF Begins
  <2> QED BY <2>2, <2>3
<1>11. Freed' = Freed
  BY <1>1 DEF Freed, Live
<1> HIDE DEF w, l
<1>12. Enters(c, l) => Entering(c)
  BY <1>8 DEF Entering, w, l
<1>13. Entering(c)' => \E j \in 2 .. Len(w) : Enters(c, w[j])
  BY <1>6 DEF Entering
<1>14. (\E j \in 2 .. Len(w) : Enters(c, w[j])) => Entering(c)' /\ Entering(c)
  BY <1>7, <1>9 DEF Entering, w
<1>15. ASSUME Player(c) PROVE Player(c)'
  <2>1. Enters(c, l) => /\ screen[c] = "asking" /\ up[c] = <<>> /\ ~Entering(c)'
                        /\ MayPlay(c, l.game)
    <3> SUFFICES ASSUME Enters(c, l)
                 PROVE  /\ screen[c] = "asking" /\ up[c] = <<>> /\ ~Entering(c)'
                        /\ MayPlay(c, l.game)
      OBVIOUS
    <3>1. screen[c] = "asking" /\ up[c] = <<>>
      BY <1>12, <1>15 DEF Player, Asking
    <3>2. \A j \in 2 .. Len(w) : ~Enters(c, w[j])
      BY <1>8, <1>9, <1>15 DEF Player, Asking, w, l
    <3>3. MayPlay(c, l.game)
      BY <1>8, <1>15 DEF Player, Staying, w, l
    <3> QED BY <1>13, <3>1, <3>2, <3>3
  <2>2. Stream(c)'
    BY <1>1, <1>15 DEF Player, Stream
  <2>3. \A T : Says(c, T)' <=> Says(c, T)
    BY <1>1 DEF Says
  <2>4. up[c] = <<>> => Len(up[c]) = 0
    OBVIOUS
  <2>5. Asking(c)'
    <3>1. Says(c, Asks)' => screen'[c] \in {"asking", "left"}
      <4>1. Says(c, Asks) => screen[c] \in {"asking", "left"} /\ Len(up[c]) # 0
        BY <1>15 DEF Player, Asking, Says
      <4> QED BY <1>3, <2>1, <2>3, <2>4, <4>1
    <3>2. Entering(c)' => screen'[c] = "asking" /\ up'[c] = <<>>
      <4>1. Entering(c)' => screen[c] = "asking" /\ up[c] = <<>> /\ ~Enters(c, l)
        BY <1>13, <1>14, <1>15, <2>1 DEF Player, Asking
      <4> QED BY <1>1, <1>3, <4>1
    <3>3. \A i, j \in 1 .. Len(down'[c]) :
             Enters(c, down'[c][i]) /\ Enters(c, down'[c][j]) => i = j
      <4> SUFFICES ASSUME NEW i \in 1 .. Len(down'[c]), NEW j \in 1 .. Len(down'[c]),
                          Enters(c, down'[c][i]), Enters(c, down'[c][j])
                   PROVE  i = j
        OBVIOUS
      <4>1. i + 1 \in 1 .. Len(w) /\ j + 1 \in 1 .. Len(w)
        BY <1>6, <1>9
      <4>2. Enters(c, w[i + 1]) /\ Enters(c, w[j + 1])
        BY <1>6
      <4>3. i + 1 = j + 1
        BY <1>15, <4>1, <4>2 DEF Player, Asking, w
      <4> QED BY <4>3
    <3>4. screen'[c] = "asking" => Says(c, Asks)' \/ Entering(c)'
      <4>1. screen'[c] = "asking" => screen[c] = "asking" /\ ~Enters(c, l)
        BY <1>3
      <4>2. Entering(c) /\ ~Enters(c, l) => Entering(c)'
        BY <1>8, <1>14 DEF Entering, w, l
      <4> QED BY <1>15, <2>3, <4>1, <4>2 DEF Player, Asking
    <3>5. screen'[c] = "game" => \A i \in 1 .. Len(up'[c]) : up'[c][i].type \in GameTypes
      <4>1. screen'[c] = "game" => Enters(c, l) \/ screen[c] = "game"
        BY <1>3
      <4>2. Enters(c, l) => Len(up[c]) = 0
        BY <2>1, <2>4
      <4> QED BY <1>1, <1>15, <4>1, <4>2 DEF Player, Asking
    <3> QED BY <3>1, <3>2, <3>3, <3>4, <3>5 DEF Asking
  <2>6. Staying(c)'
    <3>1. \A i \in 1 .. Len(down'[c]) : Enters(c, down'[c][i]) => MayPlay(c, down'[c][i].game)
      BY <1>6, <1>9, <1>15 DEF Player, Staying, w
    <3>2. screen'[c] = "game" => MayPlay(c, game'[c])
      <4>1. screen'[c] = "game" => Enters(c, l) \/ (screen[c] = "game" /\ ~Outs(c, l))
        BY <1>3
      <4> QED BY <1>4, <1>15, <2>1, <4>1 DEF Player, Staying
    <3>3. Says(c, HostOnly)' => hosting[c]
      BY <1>15, <2>3 DEF Player, Staying
    <3> QED BY <1>1, <1>15, <3>1, <3>2, <3>3 DEF Player, Staying, MayPlay, In
  <2> QED BY <2>2, <2>5, <2>6 DEF Player
<1>16. ASSUME Player(c), Viewing(c) PROVE Viewing(c)'
  <2>1. Enters(c, l) => screen[c] = "asking" /\ up[c] = <<>> /\ ~Entering(c)'
    <3>1. Enters(c, l) => screen[c] = "asking" /\ up[c] = <<>>
      BY <1>12, <1>16 DEF Player, Asking
    <3>2. Enters(c, l) => \A j \in 2 .. Len(w) : ~Enters(c, w[j])
      BY <1>8, <1>9, <1>16 DEF Player, Asking, w, l
    <3> QED BY <1>13, <3>1, <3>2
  <2>2. \A T : Says(c, T)' <=> Says(c, T)
    BY <1>1 DEF Says
  <2>3. Outs(c, l) /\ screen[c] = "game" => channel[c] = NoConn
    BY <1>8, <1>16 DEF Viewing, w, l
  <2>4. (screen'[c] = "lobby" \/ Says(c, Asks)') /\ channel[c] # NoConn => Says(c, {"PART"})'
    <3>1. screen'[c] = "lobby" => screen[c] = "lobby" \/ (Outs(c, l) /\ screen[c] = "game")
      BY <1>3
    <3> QED BY <1>16, <2>2, <2>3, <3>1 DEF Viewing
  <2>5. ASSUME NEW i \in 1 .. Len(down'[c]), Outs(c, down'[c][i]),
               screen'[c] = "game" \/ \E k \in 1 .. i - 1 : Enters(c, down'[c][k])
        PROVE  channel[c] = NoConn
    <3>1. i + 1 \in 1 .. Len(w) /\ Outs(c, w[i + 1])
      BY <1>6, <1>9, <2>5
    <3>2. screen'[c] = "game" => screen[c] = "game" \/ \E k \in 1 .. (i + 1) - 1 : Enters(c, w[k])
      <4>1. screen'[c] = "game" => Enters(c, l) \/ screen[c] = "game"
        BY <1>3
      <4>2. 1 \in 1 .. (i + 1) - 1
        BY <1>2, <2>5
      <4> QED BY <4>1, <4>2 DEF l
    <3>3. ASSUME NEW k \in 1 .. i - 1, Enters(c, down'[c][k])
          PROVE  k + 1 \in 1 .. (i + 1) - 1 /\ Enters(c, w[k + 1])
      <4>1. k \in 1 .. Len(down'[c])
        BY <1>2, <2>5
      <4>2. Enters(c, w[k + 1])
        BY <1>6, <3>3, <4>1
      <4> QED BY <1>2, <2>5, <4>2
    <3>4. screen[c] = "game" \/ \E k \in 1 .. (i + 1) - 1 : Enters(c, w[k])
      BY <2>5, <3>2, <3>3
    <3> QED BY <1>16, <3>1, <3>4 DEF Viewing, w
  <2>6. ASSUME NEW i \in 1 .. Len(w), NEW j \in i + 1 .. Len(w), Outs(c, w[j])
        PROVE  \E k \in i .. Len(down'[c]) : Outs(c, down'[c][k])
    <3>1. j \in 2 .. Len(w) /\ j - 1 \in i .. Len(down'[c])
      BY <1>2
    <3> QED BY <1>7, <2>6, <3>1
  <2>7. screen'[c] = "game" => channel[c] = game'[c] \/ game'[c] \in Freed
                               \/ \E k \in 1 .. Len(down'[c]) : Outs(c, down'[c][k])
    <3>1. CASE Enters(c, l)
      <4>1. \/ channel[c] = l.game \/ l.game \in Freed
            \/ \E j \in 1 + 1 .. Len(w) : Outs(c, w[j])
        BY <1>8, <1>16, <3>1 DEF Viewing, w, l
      <4> QED BY <1>4, <1>8, <2>6, <3>1, <4>1
    <3>2. CASE ~Enters(c, l)
      <4> SUFFICES ASSUME screen'[c] = "game"
                   PROVE  channel[c] = game'[c] \/ game'[c] \in Freed
                               \/ \E k \in 1 .. Len(down'[c]) : Outs(c, down'[c][k])
        OBVIOUS
      <4>1. screen[c] = "game" /\ ~Outs(c, l) /\ game'[c] = game[c]
        BY <1>3, <1>4, <3>2
      <4>2. Outing(c) => \E j \in 1 + 1 .. Len(w) : Outs(c, w[j])
        BY <1>8, <4>1 DEF Outing, w, l
      <4> QED BY <1>8, <1>16, <2>6, <4>1, <4>2 DEF Viewing
    <3> QED BY <3>1, <3>2
  <2>8. ASSUME NEW i \in 1 .. Len(down'[c]), Enters(c, down'[c][i])
        PROVE  \/ channel[c] = down'[c][i].game \/ down'[c][i].game \in Freed
               \/ \E k \in i + 1 .. Len(down'[c]) : Outs(c, down'[c][k])
    <3>1. i + 1 \in 1 .. Len(w) /\ down'[c][i] = w[i + 1]
      BY <1>6, <1>9
    <3>2. \/ channel[c] = w[i + 1].game \/ w[i + 1].game \in Freed
          \/ \E j \in (i + 1) + 1 .. Len(w) : Outs(c, w[j])
      BY <1>16, <2>8, <3>1 DEF Viewing, w
    <3> QED BY <2>6, <3>1, <3>2
  <2> QED BY <1>1, <1>11, <2>4, <2>5, <2>7, <2>8 DEF Viewing, Outing
<1> QED BY <1>10, <1>15, <1>16
-----------------------------------------------------------------------------
(* What the server does with a line. *)

\* The line goes if it was handled, and what the handler writes is under way.
LEMMA HandleFrame ==
    ASSUME StateOK, LobbyTypeOK, NEW c \in Conn, Handle(c)
    PROVE  /\ up[c] # <<>> /\ Head(up[c]) \in UpLine /\ Head(up[c]) = up[c][1] /\ 1 \in 1 .. Len(up[c])
           /\ Dispatch(c, Head(up[c])) /\ Command(c) /\ SentType'
           /\ UNCHANGED <<screen, game, seen, spent, ended>>
           /\ \A d \in Conn : Heard(d) /\ (screen[d] = "left" => down'[d] = <<>>)
           /\ \A d \in Conn \ {c} : up'[d] = up[d]
           /\ fault' = "none" => Popped(c)
           /\ fault' # "none" => up' = up
           /\ ~strayed' => ~strayed /\ ~Astray'
<1>1. up[c] \in Seq(UpLine) /\ up[c] # <<>> /\ up \in [Conn -> Seq(UpLine)]
  BY DEF Handle, LobbyTypeOK
<1>2. Head(up[c]) \in UpLine /\ Head(up[c]) = up[c][1] /\ 1 \in 1 .. Len(up[c])
  BY <1>1, TailFacts
<1>3. Dispatch(c, Head(up[c]))
  BY DEF Handle
<1>4. Command(c)
  BY <1>2, <1>3, DispatchCommand
<1>5. SentType'
  BY <1>4, NextSent DEF Next, Sent
<1>6. UNCHANGED <<screen, game, seen, spent, ended>>
  BY DEF Handle, playerVars
<1>7. \A d \in Conn : Heard(d) /\ (screen[d] = "left" => down'[d] = <<>>)
  BY DEF Handle, Heard
<1>8. (\A d \in Conn \ {c} : up'[d] = up[d]) /\ (fault' = "none" => Popped(c))
  BY <1>1 DEF Handle, Popped
<1>9. fault' # "none" => up' = up
  BY DEF Handle
<1>10. ~strayed' => ~strayed /\ ~Astray'
  BY DEF Handle
<1> QED BY <1>1, <1>2, <1>3, <1>4, <1>5, <1>6, <1>7, <1>8, <1>9, <1>10

\* No line of the types T is written; lines that concern nobody's stay, and lines
\* that do not list the games.
Lacks(T) == \A d \in Conn : \A i \in 1 .. Len(sent'[d]) : sent'[d][i].type \notin T
Mute     == Lacks({"JOINGAME", "PART", "KICK"})
Unlisted == Lacks({"326"})

\* Copies of a line, as many as a vector has entries for a connection.
LEMMA CopiesFacts ==
    ASSUME NEW m, NEW n \in Nat
    PROVE  Len(Copies(m, n)) = n /\ \A i \in 1 .. n : Copies(m, n)[i] = m
BY DEF Copies

\* A connection has an entry in a vector, and one only, exactly if it occurs there.
LEMMA OccurrencesListed ==
    ASSUME NEW s \in Seq(Conn), NEW x
    PROVE  /\ Occurrences(s, x) \in Nat
           /\ Occurrences(s, x) # 0 <=> x \in Range(s)
           /\ x \in Range(s) /\ Once(s, x) => Occurrences(s, x) = 1
<1> DEFINE K == {k \in DOMAIN s : s[k] = x}
<1>1. Occurrences(s, x) \in Nat
  BY OccurrencesType
<1>2. IsFiniteSet(K)
  <2>1. K \subseteq 1 .. Len(s) /\ Len(s) \in Nat
    OBVIOUS
  <2> QED BY <2>1, FS_Interval, FS_Subset
<1>3. Occurrences(s, x) # 0 <=> K # {}
  BY <1>2, FS_EmptySet DEF Occurrences
<1>4. ASSUME x \in Range(s), Once(s, x) PROVE Occurrences(s, x) = 1
  <2>1. PICK k \in DOMAIN s : s[k] = x
    BY <1>4 DEF Range
  <2>2. K = {k}
    BY <1>4, <2>1 DEF Once
  <2> QED BY <2>2, FS_Singleton DEF Occurrences
<1> QED BY <1>1, <1>3, <1>4 DEF Range

\* What ends the process writes nothing and leaves the rest as it is.
LEMMA DiedFrame ==
    ASSUME Died
    PROVE  /\ sent' = NoSend /\ fault' # "none"
           /\ UNCHANGED <<connections, gameId, nick, hosting, channelName, members, channel, movers, mutex>>
BY DEF Died, Die, connVars, userVars, gameVars

\* The lines that tell of a stay or list the games.
Telling == {"JOINGAME", "PART", "KICK", "326"}

LEMMA TellingSplit == Lacks(Telling) => Mute /\ Unlisted
BY DEF Telling, Lacks, Mute, Unlisted

\* What is said in a game, or to somebody, is none of them.
LEMMA GameSaid ==
    ASSUME StateOK, SentType', NEW c \in Conn, NEW type \in {"PRIVMSG", "PAGE"}, NEW n, ToGame(c, type, n), ~Died
    PROVE  Lacks(Telling)
<1> DEFINE m == Line(type, nick[c], n)
           r == MembersOf(channel[c])
           ack == IF type = "PAGE" THEN <<Reply("389")>> ELSE <<>>
<1>1. sent' = [Relay(r, c, m) EXCEPT ![c] = ack]
  BY DEF ToGame, Run, Died
<1>2. r \in Seq(Conn)
  BY DEF MembersOf, StateOK
<1>3. m.type \notin Telling /\ Reply("389").type \notin Telling
  BY DEF Line, Reply, Telling
<1>4. \A i \in 1 .. Len(ack) : ack[i] = Reply("389")
  OBVIOUS
<1> HIDE DEF m, r, ack
<1>5. ASSUME NEW d \in Conn, NEW i \in 1 .. Len(sent'[d]) PROVE sent'[d][i].type \notin Telling
  <2>1. CASE d = c
    <3>1. sent'[d] = ack
      BY <1>1, <2>1 DEF Relay
    <3> QED BY <1>3, <1>4, <1>5, <3>1
  <2>2. CASE d # c
    <3>1. sent'[d] = Copies(m, Occurrences(r, d))
      BY <1>1, <2>2 DEF Relay
    <3>2. sent'[d][i] = m
      BY <1>2, <1>5, <3>1, CopiesFacts, OccurrencesListed
    <3> QED BY <1>3, <3>2
  <2> QED BY <2>1, <2>2
<1> QED BY <1>5 DEF Lacks

LEMMA NickSaid ==
    ASSUME NEW c \in Conn, NEW type \in {"PRIVMSG", "PAGE"}, NEW n, ToNick(c, type, n), ~Died
    PROVE  Lacks(Telling)
<1> DEFINE m == Line(type, nick[c], NoName)
           r == Reply("389")
           target == FirstIn(connections, Named(n))
           ack == IF type = "PAGE" THEN <<r>> ELSE <<>>
           S == {m, r}
<1>1. sent' = [d \in Conn |-> (IF d = target THEN <<m>> ELSE <<>>) \o (IF d = c THEN ack ELSE <<>>)]
  BY DEF ToNick, Run, Died
<1>2. m.type \notin Telling /\ r.type \notin Telling
  BY DEF Line, Reply, Telling
<1> HIDE DEF m, r, target
<1>3. <<m>> \in Seq(S) /\ <<r>> \in Seq(S) /\ <<>> \in Seq(S)
  OBVIOUS
<1>4. ASSUME NEW d \in Conn PROVE sent'[d] \in Seq(S)
  <2> DEFINE a == IF d = target THEN <<m>> ELSE <<>>
             b == IF d = c THEN ack ELSE <<>>
  <2>1. a \in Seq(S) /\ b \in Seq(S) /\ sent'[d] = a \o b
    BY <1>1, <1>3
  <2> HIDE DEF a, b, S
  <2> QED BY <2>1, ConcatFacts
<1>5. \A x \in S : x.type \notin Telling
  BY <1>2
<1> HIDE DEF S
<1> QED BY <1>4, <1>5 DEF Lacks

\* A line that asks for, ends and changes no stay is only spoken of.
LEMMA QuietHandled ==
    ASSUME LobbyTypeOK, StateOK, SentType', NEW c \in Conn, NEW l \in UpLine, LineOK(c, l), Dispatch(c, l),
           l.type \notin Asks \cup {"PART", "KICK"}
    PROVE  /\ UNCHANGED <<connections, gameId, hosting, channelName, members, channel, movers, mutex>>
           /\ Mute /\ (l.type # "LIST" => Unlisted)
           /\ \A d \in Conn : nick'[d] = nick[d] \/ (d = c /\ nick'[d] = d)
           /\ l.type = "NICK" => nick'[c] = c
<1> DEFINE Frame == UNCHANGED <<connections, gameId, nick, hosting, channelName, members, channel, movers, mutex>>
<1>1. \A d \in Conn : DOMAIN sent'[d] = 1 .. Len(sent'[d])
  BY DEF SentType
<1>2. sent' = NoSend => Lacks(Telling)
  BY DEF NoSend, Lacks
<1>3. ASSUME NEW m, NEW T, NEW x, m.type \notin T, sent' = SendTo(x, m)
      PROVE  Lacks(T)
  BY <1>3 DEF SendTo, Lacks
<1>4. Died => Frame /\ Lacks(Telling)
  BY <1>2, DiedFrame
<1>5. CASE l.type = "NICK"
  <2>1. HandleNICK(c, c)
    BY <1>5 DEF Dispatch, LineOK, Ignored, Answered
  <2> QED BY <1>2, <2>1, TellingSplit DEF HandleNICK, connVars, gameVars, StateOK
<1>6. CASE l.type = "LIST"
  <2>1. HandleLIST(c)
    BY <1>6 DEF Dispatch, Ignored, Answered
  <2>2. Mute
    BY <2>1, <1>3 DEF HandleLIST, Listing, Mute
  <2> QED BY <1>6, <2>1, <2>2 DEF HandleLIST, connVars, userVars, gameVars
<1>7. CASE l.type \in {"QUIT"} \cup Ignored \cup DOMAIN Answered \cup {"SETCODEPAGE", "SETLOCALE"}
  <2>1. Frame /\ (sent' = NoSend \/ \E code \in FixedReply \cup {"607", "329", "310"} : sent' = SendTo(c, Reply(code)))
    <3>1. CASE l.type = "QUIT"
      BY <3>1 DEF Dispatch, HandleQUIT, userVars, gameVars, Ignored, Answered
    <3>2. CASE l.type \in Ignored
      BY <3>2 DEF Dispatch, HandleIgnored, connVars, userVars, gameVars, Ignored, Answered
    <3>3. CASE l.type \in DOMAIN Answered
      <4>1. HandleFixed(c, Answered[l.type])
        BY <3>3 DEF Dispatch, Ignored, Answered
      <4> QED BY <3>3, <4>1, BareKinds DEF HandleFixed, connVars, userVars, gameVars
    <3>4. CASE l.type = "SETCODEPAGE"
      BY <3>4 DEF Dispatch, HandleSETCODEPAGE, connVars, gameVars, Ignored, Answered
    <3>5. CASE l.type = "SETLOCALE"
      BY <3>5 DEF Dispatch, HandleSETLOCALE, connVars, gameVars, Ignored, Answered
    <3> QED BY <1>7, <3>1, <3>2, <3>3, <3>4, <3>5
  <2>2. \A code \in FixedReply \cup {"607", "329", "310"} : Reply(code).type \notin Telling
    BY DEF FixedReply, Reply, Line, Telling
  <2>3. Lacks(Telling)
    BY <1>2, <1>3, <2>1, <2>2
  <2>4. l.type # "NICK"
    BY <1>7 DEF Ignored, Answered
  <2> QED BY <2>1, <2>3, <2>4, TellingSplit
<1>8. CASE l.type = "TOPIC"
  <2>1. PICK t \in TopicStr : HandleTOPIC(c, l.game, t)
    BY <1>8 DEF Dispatch, Ignored, Answered
  <2>2. ASSUME ~Died PROVE Frame /\ sent' = NoSend
    BY <2>1, <2>2 DEF HandleTOPIC, Run, Died, connVars, userVars
  <2> QED BY <1>2, <1>4, <1>8, <2>2, TellingSplit
<1>9. CASE l.type \in {"STARTG"} \cup TalkTypes
  <2>1. Command(c) /\ Talk(c)
    <3>1. l.nick \in Name /\ l.game \in Name /\ (l.nick # NoName => l.nick \in Nick)
      BY DEF UpLine, Name
    <3>2. l.type \in {"GETCODEPAGE", "GETLOCALE"} => {l.nick} \in (SUBSET Nick) \ {{}}
      BY OwnNickAssumption DEF UpLine
    <3>3. CASE l.type \in {"GETCODEPAGE", "GETLOCALE"}
      BY <3>2, <3>3, DispatchCommand DEF Dispatch, Talk, Ignored, Answered
    <3>4. CASE l.type \in {"STARTG", "GAMEOPT", "PRIVMSG", "PAGE"}
      BY <3>1, <3>4, DispatchCommand DEF Dispatch, Talk, Ignored, Answered
    <3> QED BY <1>9, <3>3, <3>4 DEF TalkTypes
  <2>2. Died \/ Said
    BY <2>1, TalkKinds
  <2>3. ASSUME NEW r \in Seq(Conn), NEW m, m.type \notin Telling,
               sent' = Broadcast(r, m) \/ sent' = Relay(r, c, m)
        PROVE  Lacks(Telling)
    <3> SUFFICES ASSUME NEW d \in Conn, NEW i \in 1 .. Len(sent'[d]), sent'[d][i].type \in Telling
                 PROVE  FALSE
      BY DEF Lacks
    <3>1. Hears(d, Telling)
      BY <1>1 DEF Hears
    <3>2. m.type \in Telling
      BY <2>3, <3>1, BroadcastHeard
    <3> QED BY <2>3, <3>2
  <2>4. MembersOf(channel[c]) \in Seq(Conn) /\ members[c] \in Seq(Conn)
    BY DEF MembersOf, StateOK
  <2>5. ASSUME l.type = "GAMEOPT", l.nick = NoName PROVE Lacks(Telling)
    <3> DEFINE m == Line("GAMEOPT", nick[c], GameName(channel[c]))
               r == MembersOf(channel[c])
    <3>1. Died \/ sent' = Relay(r, c, m)
      BY <2>5 DEF Dispatch, HandleGAMEOPTGame, Run, Died, Ignored, Answered
    <3>2. m.type \notin Telling
      BY DEF Line, Telling
    <3>3. r \in Seq(Conn)
      BY <2>4
    <3> HIDE DEF m, r
    <3> QED BY <1>4, <2>3, <3>1, <3>2, <3>3
  <2>6. ASSUME l.type = "GAMEOPT", l.nick # NoName PROVE Lacks(Telling)
    <3> DEFINE m == Line("GAMEOPT", nick[c], l.nick)
    <3>1. HandleGAMEOPTNick(c, l.nick)
      BY <2>6 DEF Dispatch, Ignored, Answered
    <3>2. Died \/ sent' = NoSend \/ \E x : sent' = SendTo(x, m)
      BY <3>1 DEF HandleGAMEOPTNick, Run, Died
    <3>3. m.type \notin Telling
      BY DEF Line, Telling
    <3> HIDE DEF m
    <3> QED BY <1>2, <1>3, <1>4, <3>2, <3>3
  <2>7. ASSUME l.type \in {"PRIVMSG", "PAGE"} PROVE Lacks(Telling)
    <3>1. ToGame(c, l.type, l.game) \/ ToNick(c, l.type, l.nick)
      BY <2>7 DEF Dispatch, Ignored, Answered, HandlePRIVMSGGame, HandlePAGEGame, HandlePRIVMSGNick, HandlePAGENick
    <3> QED BY <1>4, <2>7, <3>1, GameSaid, NickSaid
  <2>8. ASSUME l.type \in {"GETCODEPAGE", "GETLOCALE"} PROVE Lacks(Telling)
    <3>1. Died \/ \E v : sent' = SendTo(c, Answer("328", v)) \/ sent' = SendTo(c, Answer("309", v))
      BY <2>8 DEF Dispatch, Ignored, Answered, HandleGETCODEPAGE, HandleGETLOCALE, HandleLookup, Run, Died
    <3>2. \A v : Answer("328", v).type \notin Telling /\ Answer("309", v).type \notin Telling
      BY DEF Answer, Telling
    <3> QED BY <1>3, <1>4, <3>1, <3>2
  <2>9. ASSUME l.type = "STARTG" PROVE Lacks(Telling)
    <3> DEFINE m == Start(nick[c], Nicks(members[c]), gameId[c])
    <3>1. Died \/ sent' = Broadcast(members[c], m)
      BY <2>9 DEF Dispatch, HandleSTARTG, Run, Died, Ignored, Answered
    <3>2. m.type \notin Telling
      BY DEF Start, Telling
    <3> HIDE DEF m
    <3> QED BY <1>4, <2>3, <2>4, <3>1, <3>2
  <2>10. Lacks(Telling)
    BY <1>9, <2>5, <2>6, <2>7, <2>8, <2>9 DEF TalkTypes
  <2>11. Frame /\ l.type # "NICK"
    BY <1>4, <1>9, <2>2 DEF Said, connVars, userVars, gameVars, TalkTypes
  <2> QED BY <2>10, <2>11, TellingSplit
<1>10. \/ l.type \in {"NICK", "LIST", "TOPIC"}
       \/ l.type \in {"QUIT"} \cup Ignored \cup DOMAIN Answered \cup {"SETCODEPAGE", "SETLOCALE"}
       \/ l.type \in {"STARTG"} \cup TalkTypes
  BY DEF UpLine, SaidType, Asks, HostOnly, Bare
<1> QED BY <1>5, <1>6, <1>7, <1>8, <1>9, <1>10
\* Who enters a game hears so first, and once unless it is listed there already;
\* nobody else hears anything about itself but a PAGE.
LEMMA EnterLines ==
    ASSUME StateOK, NEW c \in Conn, NEW h \in Conn, NEW g, Enter(c, h, g), nick[c] = c
    PROVE  /\ Unlisted
           /\ \A d \in Conn : \A i \in 1 .. Len(sent'[d]) :
                 ~Outs(d, sent'[d][i]) /\ (Enters(d, sent'[d][i]) => d = c)
           /\ Once(Append(members[h], c), c) =>
                 /\ 1 \in 1 .. Len(sent'[c])
                 /\ Enters(c, sent'[c][1]) /\ sent'[c][1].game = g
                 /\ \A i \in 1 .. Len(sent'[c]) : Enters(c, sent'[c][i]) => i = 1
<1> DEFINE roster == Append(members[h], c)
           others == Select(roster, Conn \ {c})
           pages  == [i \in DOMAIN others |-> Line("PAGE", nick[others[i]], NoName)]
           join   == Line("JOINGAME", c, g)
           names  == Roster(g, topic[h], LastFirst(roster))
           page   == Line("PAGE", c, g)
           first(d) == Copies(join, Occurrences(roster, d))
           rest(d) == IF d = c THEN <<names>> \o pages ELSE Copies(page, Occurrences(roster, d))
           M == {m \in {join, names, page} \cup Range(pages) : m = join \/ m.type \in {"353", "PAGE"}}
<1>1. sent' = [d \in Conn |-> first(d) \o rest(d)]
  BY DEF Enter
<1>2. roster \in Seq(Conn) /\ c \in Range(roster)
  BY AppendProperties DEF StateOK
<1>3. /\ join.type = "JOINGAME" /\ join.nick = c /\ join.game = g
      /\ page.type = "PAGE" /\ names.type = "353"
  BY DEF Line, Roster
<1>4. others \in Seq(Conn)
  BY <1>2, SelectProperties
<1> HIDE DEF roster
<1>5. pages \in Seq(M) /\ \A m \in Range(pages) : m.type = "PAGE"
  <2> HIDE DEF others
  <2>1. DOMAIN others = 1 .. Len(others) /\ Len(others) \in Nat
    BY <1>4
  <2>2. \A i \in 1 .. Len(others) : pages[i].type = "PAGE" /\ pages[i] \in Range(pages)
    BY <2>1 DEF Line, Range
  <2>3. \A i \in 1 .. Len(others) : pages[i] \in M
    BY <2>2
  <2>4. \A m \in Range(pages) : m.type = "PAGE"
    BY <2>1, <2>2 DEF Range
  <2> HIDE DEF M
  <2> QED BY <2>1, <2>3, <2>4
<1> HIDE DEF others, pages, names, page, join
<1>6. \A m \in M : m = join \/ m.type \in {"353", "PAGE"}
  OBVIOUS
<1>7. join \in M /\ names \in M /\ page \in M
  BY <1>3
<1> HIDE DEF M
<1>8. ASSUME NEW d \in Conn
      PROVE  /\ first(d) \in Seq(M) /\ Len(first(d)) = Occurrences(roster, d)
             /\ \A i \in 1 .. Len(first(d)) : first(d)[i] = join
             /\ Occurrences(roster, d) \in Nat
  BY <1>2, <1>7, CopiesType, CopiesFacts, OccurrencesListed
<1>9. ASSUME NEW d \in Conn
      PROVE  /\ rest(d) \in Seq(M) /\ \A i \in 1 .. Len(rest(d)) : rest(d)[i] # join
             /\ d = c => Len(rest(d)) > 0
  <2>1. CASE d # c
    <3>1. /\ Copies(page, Occurrences(roster, d)) \in Seq(M)
          /\ \A i \in 1 .. Len(Copies(page, Occurrences(roster, d))) :
                Copies(page, Occurrences(roster, d))[i] = page
      BY <1>7, <1>8, CopiesType, CopiesFacts
    <3> QED BY <1>3, <2>1, <3>1
  <2>2. CASE d = c
    <3> DEFINE t == <<names>>
               r == t \o pages
    <3>1. t \in Seq(M) /\ Len(t) = 1 /\ t[1] = names
      BY <1>7
    <3>2. \A i \in 1 .. Len(pages) : pages[i].type = "PAGE"
      BY <1>5 DEF Range
    <3> HIDE DEF t
    <3>3. /\ r \in Seq(M) /\ Len(r) = 1 + Len(pages) /\ Len(pages) \in Nat
          /\ \A i \in 1 .. Len(r) : i \in 1 .. Len(t) \/ i - Len(t) \in 1 .. Len(pages)
          /\ \A i \in 1 .. Len(t) : r[i] = t[i]
          /\ \A i \in 1 .. Len(r) : i \notin 1 .. Len(t) => r[i] = pages[i - Len(t)]
      BY <1>5, <3>1, ConcatFacts
    <3>4. \A i \in 1 .. Len(r) : r[i].type \in {"353", "PAGE"}
      <4> SUFFICES ASSUME NEW i \in 1 .. Len(r) PROVE r[i].type \in {"353", "PAGE"}
        OBVIOUS
      <4> HIDE DEF r
      <4>1. CASE i \in 1 .. Len(t)
        BY <1>3, <3>1, <3>3, <4>1
      <4>2. CASE i \notin 1 .. Len(t)
        BY <3>2, <3>3, <4>2
      <4> QED BY <4>1, <4>2
    <3>5. rest(d) = r
      BY <2>2 DEF t
    <3> HIDE DEF r, rest
    <3>6. \A i \in 1 .. Len(r) : r[i] # join
      BY <1>3, <3>4
    <3> QED BY <2>2, <3>3, <3>5, <3>6
  <2> QED BY <2>1, <2>2
<1> HIDE DEF first, rest
<1>10. ASSUME NEW d \in Conn
       PROVE  LET n == Occurrences(roster, d)
                  s == sent'[d]
              IN  /\ n \in Nat /\ Len(s) = n + Len(rest(d)) /\ Len(rest(d)) \in Nat
                  /\ \A i \in 1 .. Len(s) : IF i \in 1 .. n THEN s[i] = join
                                            ELSE s[i] # join /\ s[i] \in M
  <2> DEFINE f == first(d)
             r == rest(d)
  <2>1. sent'[d] = f \o r
    BY <1>1
  <2>2. f \in Seq(M) /\ r \in Seq(M) /\ Len(f) = Occurrences(roster, d)
    BY <1>8, <1>9
  <2>3. (\A i \in 1 .. Len(f) : f[i] = join) /\ (\A i \in 1 .. Len(r) : r[i] # join)
    BY <1>8, <1>9
  <2> HIDE DEF f, r
  <2>4. /\ Len(f) \in Nat /\ Len(r) \in Nat
        /\ f \o r \in Seq(M) /\ Len(f \o r) = Len(f) + Len(r)
        /\ \A i \in 1 .. Len(f) : (f \o r)[i] = f[i]
        /\ \A i \in 1 .. Len(f \o r) : i \in 1 .. Len(f) \/ i - Len(f) \in 1 .. Len(r)
        /\ \A i \in 1 .. Len(f \o r) : i \notin 1 .. Len(f) => (f \o r)[i] = r[i - Len(f)]
    <3>1. f \in Seq(M) /\ r \in Seq(M)
      BY <2>2
    <3> QED BY <3>1, ConcatFacts
  <2>5. \A i \in 1 .. Len(r) : r[i] \in M
    BY <2>2
  <2>6. \A i \in 1 .. Len(f \o r) : IF i \in 1 .. Len(f) THEN (f \o r)[i] = join
                                    ELSE (f \o r)[i] # join /\ (f \o r)[i] \in M
    BY <2>3, <2>4, <2>5
  <2> QED BY <2>1, <2>2, <2>4, <2>6 DEF r
<1>11. ASSUME NEW d \in Conn, NEW i \in 1 .. Len(sent'[d])
       PROVE  /\ ~Outs(d, sent'[d][i]) /\ (Enters(d, sent'[d][i]) => sent'[d][i] = join)
              /\ sent'[d][i].type # "326"
  <2>1. sent'[d][i] = join \/ sent'[d][i] \in M
    BY <1>10, <1>11
  <2>2. sent'[d][i] = join \/ sent'[d][i].type \in {"353", "PAGE"}
    BY <1>6, <2>1
  <2> QED BY <1>3, <2>2 DEF Enters, Outs
<1>12. ASSUME Once(roster, c)
       PROVE  /\ 1 \in 1 .. Len(sent'[c]) /\ sent'[c][1] = join
              /\ \A i \in 1 .. Len(sent'[c]) : sent'[c][i] = join => i = 1
  <2>1. Occurrences(roster, c) = 1
    BY <1>2, <1>12, OccurrencesListed
  <2>2. 1 \in 1 .. Len(sent'[c]) /\ 1 \in 1 .. 1
    BY <1>10, <2>1
  <2>3. \A i \in 1 .. Len(sent'[c]) : IF i \in 1 .. 1 THEN sent'[c][i] = join
                                      ELSE sent'[c][i] # join
    BY <1>10, <2>1
  <2> QED BY <2>2, <2>3
<1>13. \A d \in Conn : Enters(d, join) => d = c
  BY <1>3 DEF Enters
<1>14. Enters(c, join)
  BY <1>3 DEF Enters
<1>15. Unlisted
  BY <1>11 DEF Unlisted, Lacks
<1> QED BY <1>3, <1>11, <1>12, <1>13, <1>14, <1>15 DEF roster
\* A nick is nobody else's.
LEMMA NamedOwn ==
    ASSUME \A x \in Conn : OwnName(x), NEW d \in Conn
    PROVE  Named(d) \subseteq {d}
BY OwnNickAssumption DEF OwnName, Named

\* c has entered the game of h, which is hosted by then.
Asked(c, h) ==
    /\ Executing(c) /\ h \in Conn /\ (h = c \/ (h \in Live /\ hosting[h]))
    /\ Enter(c, h, h)
    /\ hosting' = [hosting EXCEPT ![h] = TRUE]
    /\ channelName' = [channelName EXCEPT ![h] = h]
    /\ UNCHANGED <<connections, gameId, nick, mutex, fault>>

\* A HOST or JOIN that does not fail brings its sender into the game it names.
LEMMA AskHandled ==
    ASSUME StateOK, \A x \in Conn : OwnName(x), NEW c \in Conn, NEW l \in UpLine,
           LineOK(c, l), Dispatch(c, l), l.type \in Asks
    PROVE  Died \/ (Asked(c, l.game) /\ (l.type = "HOST" => ~hosting[c]))
<1>1. hosting \in [Conn -> BOOLEAN] /\ channelName \in [Conn -> Name]
  BY DEF StateOK
<1>2. CASE l.type = "HOST"
  <2>1. HandleHost(c, c)
    BY <1>2 DEF Dispatch, Ignored, Answered, LineOK
  <2>2. Died \/ Hosted(c, c)
    BY <2>1 DEF HandleHost, Run, Died, Hosted
  <2>3. Hosted(c, c) => Asked(c, c) /\ ~hosting[c]
    BY <1>1 DEF Hosted, Asked, connVars, userVars
  <2> QED BY <1>2, <2>2, <2>3 DEF LineOK
<1>3. CASE l.type = "JOIN"
  <2> DEFINE n == l.game
             h == FirstIn(connections, Game(n))
  <2>1. HandleJoin(c, n)
    BY <1>3 DEF Dispatch, Ignored, Answered
  <2>2. \/ Died
        \/ /\ Executing(c) /\ h # NoConn
           /\ fault' = fault /\ mutex' = mutex
           /\ Enter(c, h, n)
           /\ UNCHANGED <<connVars, userVars, hosting, channelName, topic>>
    BY <2>1 DEF HandleJoin, Run, Died
  <2>3. h = NoConn \/ h \in Live \cap Game(n)
    BY FindLive DEF StateOK
  <2>4. h # NoConn => h \in Conn /\ h \in Live /\ hosting[h] /\ channelName[h] = n
    BY <2>3 DEF Game
  <2>5. h # NoConn => n = h
    BY <2>4 DEF OwnName
  <2> HIDE DEF h
  <2>6. h # NoConn => hosting = [hosting EXCEPT ![h] = TRUE] /\ channelName = [channelName EXCEPT ![h] = h]
    BY <1>1, <2>4, <2>5
  <2>7. ASSUME ~Died PROVE Asked(c, h) /\ n = h
    BY <2>2, <2>4, <2>5, <2>6, <2>7 DEF Asked, connVars, userVars
  <2> QED BY <1>3, <2>7
<1> QED BY <1>2, <1>3 DEF Asks

\* c is in no game, and nobody is cut loose that does not hear so.
Parted(c) ==
    /\ UNCHANGED <<connections, gameId, nick, mutex, fault>>
    /\ movers' \subseteq movers \cup {c}
    /\ \A d \in Conn : hosting'[d] => hosting[d] /\ channelName'[d] = channelName[d]
    /\ \A d \in Conn \ {c} : hosting'[d] = hosting[d]
    /\ channel'[c] = NoConn
    /\ \A d \in Conn : \A i \in 1 .. Len(sent'[d]) : ~Enters(d, sent'[d][i])
    /\ \A d \in Conn \ {c} :
          /\ channel'[d] \in {channel[d], NoConn}
          /\ \A i \in 1 .. Len(sent'[d]) : Outs(d, sent'[d][i]) => channel'[d] = NoConn
          /\ channel'[d] # channel[d] /\ nick[d] = d =>
                \E i \in 1 .. Len(sent'[d]) : Outs(d, sent'[d][i])

\* That is what a PART comes to that does not fail.
LEMMA PartHandled ==
    ASSUME IInv, SentType', NEW c \in Conn, NEW n, HandlePART(c, n), nick[c] = c
    PROVE  Died \/ Parted(c)
<1>1. /\ connections \in Seq(Conn) /\ nick \in [Conn -> Name]
      /\ hosting \in [Conn -> BOOLEAN] /\ channelName \in [Conn -> Name]
      /\ channel \in [Conn -> Conn \cup {NoConn}] /\ members[c] \in Seq(Conn)
  BY DEF IInv, StateOK
<1>2. c \in Live
  BY NoConnAssumption DEF HandlePART, Executing, IInv, MutexLive
<1>3. \A d \in Conn : DOMAIN sent'[d] = 1 .. Len(sent'[d])
  BY DEF SentType
<1>4. CASE channel[c] = NoConn
  <2>1. sent' = NoSend /\ UNCHANGED <<connVars, userVars, gameVars, mutex, fault>>
    BY <1>4 DEF HandlePART
  <2>2. \A d \in Conn : Len(sent'[d]) = 0
    BY <2>1 DEF NoSend
  <2> QED BY <1>4, <2>1, <2>2 DEF Parted, connVars, userVars, gameVars
<1>5. CASE channel[c] # NoConn /\ hosting[c] /\ ~Died
  <2> DEFINE r == members[c]
             gone == Line("PART", nick[c], GameName(channel[c]))
             own == [d \in Conn |-> Line("PART", nick[d], GameName(channel[d]))]
  <2>1. Closed(c) /\ sent' = [e \in Conn |-> IF e = c THEN Copies(gone, Occurrences(r, e))
                                   ELSE [i \in 1 .. 2 * Occurrences(r, e) |->
                                            IF i % 2 = 1 THEN gone ELSE own[e]]]
    BY <1>5 DEF HandlePART, PartHost, Run, Died, Closed
  <2>3. gone.type = "PART" /\ gone.nick = c
    BY DEF Line
  <2>4. \A d \in Conn : own[d].type = "PART" /\ own[d].nick = nick[d]
    BY DEF Line
  <2> HIDE DEF gone, own
  <2>5. ASSUME NEW d \in Conn
        PROVE  /\ \A i \in 1 .. Len(sent'[d]) : sent'[d][i].type = "PART" /\ d \in Range(r)
               /\ d # c /\ d \in Range(r) => 2 \in 1 .. Len(sent'[d]) /\ sent'[d][2] = own[d]
    <3> DEFINE n1 == Occurrences(r, d)
               k  == 2 * n1
    <3>1. n1 \in Nat /\ (n1 # 0 <=> d \in Range(r))
      BY <1>1, OccurrencesListed
    <3>2. CASE d = c
      <4>1. sent'[d] = Copies(gone, n1)
        BY <2>1, <3>2
      <4> HIDE DEF n1
      <4> QED BY <2>3, <3>1, <3>2, <4>1, CopiesFacts
    <3>3. CASE d # c
      <4>1. sent'[d] = [i \in 1 .. k |-> IF i % 2 = 1 THEN gone ELSE own[d]]
        BY <2>1, <3>3
      <4> HIDE DEF n1
      <4>2. k \in Nat /\ (n1 # 0 => 2 \in 1 .. k /\ 2 % 2 # 1) /\ \A i \in 1 .. k : n1 # 0
        BY <3>1
      <4> HIDE DEF k
      <4>3. Len(sent'[d]) = k /\ \A i \in 1 .. k : sent'[d][i] = IF i % 2 = 1 THEN gone ELSE own[d]
        BY <4>1, <4>2
      <4> QED BY <2>3, <2>4, <3>1, <4>2, <4>3
    <3> QED BY <3>2, <3>3
  <2>6. channel' = [d \in Conn |-> IF d \in Range(r) THEN NoConn ELSE channel[d]]
    BY <2>1 DEF Closed, Loose
  <2>7. c \in Range(r)
    BY <1>2, <1>5 DEF IInv, Games, HostOwnsGame
  <2>8. ASSUME NEW d \in Conn \ {c}
        PROVE  /\ channel'[d] \in {channel[d], NoConn}
               /\ \A i \in 1 .. Len(sent'[d]) : Outs(d, sent'[d][i]) => channel'[d] = NoConn
               /\ channel'[d] # channel[d] /\ nick[d] = d =>
                      \E i \in 1 .. Len(sent'[d]) : Outs(d, sent'[d][i])
    BY <2>4, <2>5, <2>6 DEF Outs
  <2>9. \A d \in Conn : \A i \in 1 .. Len(sent'[d]) : ~Enters(d, sent'[d][i])
    BY <2>5 DEF Enters
  <2>10. hosting' = [hosting EXCEPT ![c] = FALSE] /\ channelName' = [channelName EXCEPT ![c] = NoName]
    BY <2>1 DEF Closed
  <2>11. \A d \in Conn : hosting'[d] => hosting[d] /\ channelName'[d] = channelName[d]
    BY <1>1, <2>10
  <2>12. \A d \in Conn \ {c} : hosting'[d] = hosting[d]
    BY <1>1, <2>10
  <2>13. UNCHANGED <<connections, gameId, nick, mutex, fault, movers>>
    BY <2>1 DEF Closed, connVars, userVars
  <2> QED BY <2>6, <2>7, <2>8, <2>9, <2>11, <2>12, <2>13 DEF Parted
<1>6. CASE channel[c] # NoConn /\ ~hosting[c] /\ ~Died
  <2> DEFINE m == Line("PART", nick[c], n)
  <2>1. Left(c) /\ sent' = Broadcast(members[c], m)
    BY <1>6 DEF HandlePART, PartGuest, Run, Died, Left
  <2>2. members[c] = <<>>
    BY <1>6 DEF IInv, Games, HostOwnsGame
  <2>3. \A d \in Conn : Len(sent'[d]) = 0
    <3> SUFFICES ASSUME NEW d \in Conn PROVE Len(sent'[d]) = 0
      OBVIOUS
    <3>1. members[c] \in Seq(Conn) /\ Range(members[c]) = {}
      BY <2>2 DEF Range
    <3>2. Occurrences(members[c], d) = 0
      BY <3>1, OccurrencesListed
    <3>3. sent'[d] = Copies(m, 0)
      BY <2>1, <3>2 DEF Broadcast
    <3> HIDE DEF m
    <3> QED BY <3>3, CopiesFacts
  <2>4. channel' = [d \in Conn |-> IF d \in {c} THEN NoConn ELSE channel[d]]
    BY <2>1 DEF Left, Loose
  <2>5. UNCHANGED <<connections, gameId, nick, mutex, fault, hosting, channelName>> /\ movers' = movers \cup {c}
    BY <2>1 DEF Left, connVars, userVars
  <2> QED BY <2>3, <2>4, <2>5 DEF Parted
<1> QED BY <1>4, <1>5, <1>6
\* A KICK that does not fail cuts loose only whom it names, and tells so if its
\* sender is in its own game.
KickedBy(c, who) ==
    /\ Executing(c) /\ hosting[c]
    /\ UNCHANGED <<connections, gameId, nick, hosting, channelName, movers, mutex, fault>>
    /\ \A d \in Conn : channel'[d] \in {channel[d], NoConn}
    /\ \A d \in Conn : \A i \in 1 .. Len(sent'[d]) : ~Enters(d, sent'[d][i])
    /\ channel[c] = c => \A d \in Conn :
          /\ (\E i \in 1 .. Len(sent'[d]) : Outs(d, sent'[d][i])) /\ nick[d] = d => channel'[d] = NoConn
          /\ channel'[d] # channel[d] => \E i \in 1 .. Len(sent'[d]) : Outs(d, sent'[d][i])
    /\ \A d \in Conn : \A i \in 1 .. Len(sent'[d]) : Outs(d, sent'[d][i]) => d = who

\* That is what a KICK comes to that does not fail.
LEMMA KickHandled ==
    ASSUME IInv, SentType', \A x \in Conn : OwnName(x),
           NEW c \in Conn, NEW who \in Conn, HandleKICK(c, c, who)
    PROVE  Died \/ KickedBy(c, who)
<1> DEFINE s == members[c]
           r == MembersOf(channel[c])
           m == Line("KICK", who, c)
<1>1. /\ members[c] \in Seq(Conn) /\ r \in Seq(Conn) /\ c # NoConn
      /\ hosting \in [Conn -> BOOLEAN] /\ members \in [Conn -> Seq(Conn)]
  BY NoConnAssumption DEF IInv, StateOK, MembersOf
<1>2. Died \/ (KickedOut(c, who) /\ sent' = Broadcast(r, m))
  BY DEF HandleKICK, Run, Died, KickedOut, KickAllowed
<1> SUFFICES ASSUME KickedOut(c, who), sent' = Broadcast(r, m) PROVE KickedBy(c, who)
  BY <1>2
<1>3. m.type = "KICK" /\ m.nick = who
  BY DEF Line
<1> HIDE DEF m
<1>4. \A d \in Conn : Occurrences(r, d) \in Nat /\ (Occurrences(r, d) # 0 <=> d \in Range(r))
  BY <1>1, OccurrencesListed
<1> HIDE DEF r
<1>5. ASSUME NEW d \in Conn
      PROVE  /\ Len(sent'[d]) = Occurrences(r, d)
             /\ \A i \in 1 .. Len(sent'[d]) : sent'[d][i] = m
  BY <1>4, CopiesFacts DEF Broadcast
<1>6. \A d \in Conn : \A i \in 1 .. Len(sent'[d]) : ~Enters(d, sent'[d][i])
  BY <1>3, <1>5 DEF Enters
<1>7. \A d \in Conn : \A i \in 1 .. Len(sent'[d]) : Outs(d, sent'[d][i]) => d = who /\ d \in Range(r)
  BY <1>3, <1>4, <1>5 DEF Outs
<1>8. \A d \in Conn : d = who /\ d \in Range(r) => 1 \in 1 .. Len(sent'[d]) /\ Outs(d, sent'[d][1])
  <2> SUFFICES ASSUME NEW d \in Conn, d = who, d \in Range(r)
               PROVE  1 \in 1 .. Len(sent'[d]) /\ Outs(d, sent'[d][1])
    OBVIOUS
  <2>1. 1 \in 1 .. Len(sent'[d])
    BY <1>4, <1>5
  <2> QED BY <1>3, <1>5, <2>1 DEF Outs
<1>9. channel' = [d \in Conn |-> IF d \in Kicked(c, who) THEN NoConn ELSE channel[d]]
  BY DEF KickedOut, Loose
<1>10. Kicked(c, who) = {} \/ Kicked(c, who) = {Select(s, Named(who))[1]}
  BY DEF Kicked, FirstIn
<1>11. Positions(s, Named(who)) # {} =>
          /\ Kicked(c, who) = {Select(s, Named(who))[1]}
          /\ Select(s, Named(who))[1] \in Range(s) \cap Named(who)
  <2>1. Positions(s, Named(who)) # {} => Select(s, Named(who))[1] \in Range(s) \cap Named(who)
    BY <1>1, SelectProperties
  <2>2. Named(who) \subseteq Conn
    BY DEF Named
  <2> QED BY <2>1, <2>2, NoConnAssumption DEF Kicked, FirstIn
<1>12. Positions(s, Named(who)) = {} => Kicked(c, who) = {}
  BY DEF Kicked, FirstIn
<1>13. Named(who) \subseteq {who}
  BY NamedOwn
<1>14. Kicked(c, who) \subseteq Range(s) \cap {who}
  BY <1>11, <1>12, <1>13
<1>15. who \in Range(s) /\ nick[who] = who => Kicked(c, who) = {who}
  <2> SUFFICES ASSUME who \in Range(s), nick[who] = who PROVE Kicked(c, who) = {who}
    OBVIOUS
  <2>1. who \in Named(who)
    BY DEF Named
  <2>2. Positions(s, Named(who)) # {}
    BY <2>1 DEF Range, Positions
  <2> QED BY <1>11, <1>13, <2>2
<1>16. channel[c] = c => r = s
  BY <1>1 DEF r, MembersOf
<1> HIDE DEF s
<1>17. ASSUME channel[c] = c, NEW d \in Conn
       PROVE  /\ (\E i \in 1 .. Len(sent'[d]) : Outs(d, sent'[d][i])) /\ nick[d] = d => channel'[d] = NoConn
              /\ channel'[d] # channel[d] => \E i \in 1 .. Len(sent'[d]) : Outs(d, sent'[d][i])
  <2>1. ASSUME \E i \in 1 .. Len(sent'[d]) : Outs(d, sent'[d][i]), nick[d] = d PROVE channel'[d] = NoConn
    <3>1. d = who /\ d \in Range(s)
      BY <1>7, <1>16, <1>17, <2>1
    <3> QED BY <1>9, <1>15, <2>1, <3>1
  <2>2. ASSUME channel'[d] # channel[d] PROVE \E i \in 1 .. Len(sent'[d]) : Outs(d, sent'[d][i])
    <3>1. d = who /\ d \in Range(r)
      BY <1>9, <1>14, <1>16, <1>17, <2>2
    <3> QED BY <1>8, <3>1
  <2> QED BY <2>1, <2>2
<1>18. \A d \in Conn : channel'[d] \in {channel[d], NoConn}
  BY <1>9
<1>19. /\ Executing(c) /\ hosting[c]
       /\ UNCHANGED <<connections, gameId, nick, hosting, channelName, movers, mutex, fault>>
  BY DEF KickedOut, connVars, userVars
<1> QED BY <1>6, <1>7, <1>17, <1>18, <1>19 DEF KickedBy
-----------------------------------------------------------------------------
(***************************************************************************)
(* The inductive invariant of the lobby, on top of the server's.           *)
(***************************************************************************)
LInv ==
    /\ \A c \in Conn : OwnName(c) /\ Begins(c)
    /\ \A c \in Steady : Player(c)
    /\ ~strayed => ~Astray /\ \A c \in Steady : Viewing(c)

Spoken(c, l) ==
    /\ UNCHANGED <<connections, gameId, hosting, channelName, members, channel, movers, mutex>>
    /\ Mute
    /\ \A d \in Conn : nick'[d] = nick[d] \/ (d = c /\ nick'[d] = d)
    /\ l.type = "NICK" => nick'[c] = c

\* Whatever is done with a line, the thread that does it holds the mutex.
LEMMA Executes ==
    ASSUME NEW c, NEW l, Dispatch(c, l)
    PROVE  Executing(c)
BY DEF Dispatch, HandleIgnored, HandleFixed, HandleSETCODEPAGE, HandleSETLOCALE, HandleGETCODEPAGE,
       HandleGETLOCALE, HandleLookup, HandleNICK, HandleLIST, HandleHost, HandleJoin, HandleTOPIC, HandleSTARTG,
       HandlePART, HandleKICK, HandleQUIT, HandleGAMEOPTGame, HandlePRIVMSGGame, HandlePAGEGame,
       HandleGAMEOPTNick, HandlePRIVMSGNick, HandlePAGENick

\* What handling a line comes to.
LEMMA HandledKinds ==
    ASSUME IInv, LobbyTypeOK, LInv, NEW c \in Conn, Handle(c)
    PROVE  LET l == Head(up[c]) IN
           /\ c \in Live /\ Executing(c) /\ LineOK(c, l)
           /\ l.type # "NICK" => nick[c] = c
           /\ \/ Died
              \/ l.type \notin Asks \cup {"PART", "KICK"} /\ Spoken(c, l)
              \/ l.type \in Asks /\ Popped(c) /\ Asked(c, l.game) /\ (l.type = "HOST" => ~hosting[c])
              \/ l.type = "PART" /\ Popped(c) /\ Parted(c)
              \/ l.type = "KICK" /\ Popped(c) /\ KickedBy(c, l.nick)
<1> DEFINE l == Head(up[c])
<1>1. /\ up[c] # <<>> /\ l \in UpLine /\ l = up[c][1] /\ 1 \in 1 .. Len(up[c])
      /\ Dispatch(c, l) /\ SentType' /\ StateOK
      /\ fault' = "none" => Popped(c)
  BY HandleFrame DEF IInv
<1> HIDE DEF l
<1>2. LineOK(c, l) /\ \A x \in Conn : OwnName(x)
  BY <1>1 DEF LInv, OwnName
<1>3. Executing(c)
  BY <1>1, Executes
<1>4. c \in Live
  BY <1>3, NoConnAssumption DEF Executing, IInv, MutexLive
<1>5. l.type # "NICK" => nick[c] = c
  BY <1>2, <1>4 DEF l, OwnName, IInv, Ordered
<1>6. fault = "none"
  BY <1>3 DEF Executing
<1>7. CASE l.type \notin Asks \cup {"PART", "KICK"}
  BY <1>1, <1>2, <1>3, <1>4, <1>5, <1>7, QuietHandled DEF l, Spoken
<1>8. CASE l.type \in Asks
  <2>1. Died \/ (Asked(c, l.game) /\ (l.type = "HOST" => ~hosting[c]))
    BY <1>1, <1>2, <1>8, AskHandled
  <2>2. Asked(c, l.game) => fault' = "none"
    BY <1>6 DEF Asked
  <2> QED BY <1>1, <1>2, <1>3, <1>4, <1>5, <1>8, <2>1, <2>2 DEF l
<1>9. CASE l.type = "PART"
  <2>1. HandlePART(c, l.game) /\ nick[c] = c
    BY <1>1, <1>5, <1>9 DEF Dispatch, Ignored, Answered
  <2>2. Died \/ Parted(c)
    BY <1>1, <2>1, PartHandled
  <2>3. Parted(c) => fault' = "none"
    BY <1>6 DEF Parted
  <2> QED BY <1>1, <1>2, <1>3, <1>4, <1>5, <1>9, <2>2, <2>3 DEF l
<1>10. CASE l.type = "KICK"
  <2>1. HandleKICK(c, c, l.nick) /\ l.nick \in Conn
    BY <1>1, <1>2, <1>10 DEF Dispatch, Ignored, Answered, LineOK, HostOnly
  <2>2. Died \/ KickedBy(c, l.nick)
    BY <1>1, <1>2, <2>1, KickHandled
  <2>3. KickedBy(c, l.nick) => fault' = "none"
    BY <1>6 DEF KickedBy
  <2> QED BY <1>1, <1>2, <1>3, <1>4, <1>5, <1>10, <2>2, <2>3 DEF l
<1> QED BY <1>7, <1>8, <1>9, <1>10

\* Connections, and those who have not moved by themselves, are as before but for
\* the sender.
LEMMA HandledFrame ==
    ASSUME IInv, LobbyTypeOK, LInv, NEW c \in Conn, Handle(c)
    PROVE  /\ UNCHANGED <<connections, gameId>> /\ movers \subseteq movers' /\ movers' \subseteq movers \cup {c}
           /\ Live' = Live /\ Freed' = Freed
<1> DEFINE l == Head(up[c])
<1>1. UNCHANGED <<connections, gameId>> /\ movers \subseteq movers' /\ movers' \subseteq movers \cup {c}
  <2>1. CASE Died
    BY <2>1, DiedFrame
  <2>2. CASE Spoken(c, l)
    BY <2>2 DEF Spoken
  <2>3. CASE Asked(c, l.game)
    BY <2>3 DEF Asked, Enter
  <2>4. CASE KickedBy(c, l.nick)
    BY <2>4 DEF KickedBy
  <2>5. CASE l.type = "PART" /\ Parted(c)
    <3>1. movers \subseteq movers'
      <4>1. HandlePART(c, l.game)
        BY <2>5, HandleFrame DEF Dispatch, Ignored, Answered, IInv
      <4> QED BY <4>1 DEF HandlePART, PartHost, PartGuest, Run, Die, gameVars
    <3> QED BY <2>5, <3>1 DEF Parted
  <2> QED BY <2>1, <2>2, <2>3, <2>4, <2>5, HandledKinds
<1> QED BY <1>1 DEF Live, Freed

\* The names stay the players' own.
LEMMA HandledNames ==
    ASSUME IInv, LobbyTypeOK, LInv, NEW c \in Conn, Handle(c), NEW x \in Conn
    PROVE  OwnName(x)' /\ Begins(x)'
<1> DEFINE l == Head(up[c])
<1>1. /\ l = up[c][1] /\ 1 \in 1 .. Len(up[c])
      /\ UNCHANGED screen
      /\ x # c => up'[x] = up[x]
      /\ fault' = "none" => Popped(c)
      /\ fault' # "none" => up' = up
  BY HandleFrame DEF IInv
<1>2. /\ c \in Live /\ gameId[c] # 0 /\ LineOK(c, l) /\ (l.type # "NICK" => nick[c] = c)
      /\ fault = "none"
  BY HandledKinds DEF IInv, Ordered, Executing
<1>3. OwnName(x) /\ Begins(x)
  BY DEF LInv
<1>4. gameId' = gameId /\ movers' \subseteq movers \cup {c}
  BY HandledFrame
<1>5. Begins(x)'
  BY <1>1, <1>2, <1>3, <1>4 DEF Begins
<1>6. \A i \in 1 .. Len(up'[x]) : LineOK(x, up'[x][i])
  <2>1. CASE up'[x] = up[x]
    BY <1>3, <2>1 DEF OwnName
  <2>2. CASE x = c /\ Popped(c)
    BY <1>3, <2>2, PopFacts DEF OwnName
  <2> QED BY <1>1, <2>1, <2>2
<1> HIDE DEF l
<1>7. /\ nick'[x] \in {x, NoName}
      /\ hosting'[x] => nick'[x] = x /\ channelName'[x] = x
      /\ (x = c /\ l.type = "NICK" /\ fault' = "none") => nick'[c] = c
      /\ nick[x] = x => nick'[x] = x
      /\ fault' # "none" => nick'[x] = nick[x] \/ nick'[x] = x
  <2>1. CASE Died
    BY <1>3, <2>1, DiedFrame DEF OwnName
  <2>2. CASE Spoken(c, l)
    BY <1>3, <2>2 DEF OwnName, Spoken
  <2>3. CASE l.type \in Asks /\ Asked(c, l.game)
    <3>1. l.type # "NICK" /\ nick[c] = c
      BY <1>2, <2>3 DEF Asks
    <3>2. hosting \in [Conn -> BOOLEAN] /\ channelName \in [Conn -> Name]
      BY DEF IInv, StateOK
    <3>3. /\ nick' = nick
          /\ hosting' = [hosting EXCEPT ![l.game] = TRUE]
          /\ channelName' = [channelName EXCEPT ![l.game] = l.game]
          /\ l.game = c \/ hosting[l.game]
      BY <2>3 DEF Asked
    <3>4. x = l.game => nick[x] = x /\ channelName'[x] = x
      BY <1>3, <3>1, <3>2, <3>3 DEF OwnName
    <3>5. x # l.game => hosting'[x] = hosting[x] /\ channelName'[x] = channelName[x]
      BY <3>2, <3>3
    <3> QED BY <1>3, <3>1, <3>3, <3>4, <3>5 DEF OwnName
  <2>4. CASE l.type = "PART" /\ Parted(c)
    BY <1>3, <2>4 DEF OwnName, Parted
  <2>5. CASE l.type = "KICK" /\ KickedBy(c, l.nick)
    BY <1>3, <2>5 DEF OwnName, KickedBy
  <2> QED BY <2>1, <2>2, <2>3, <2>4, <2>5, HandledKinds DEF l
<1>8. gameId'[x] # 0 => nick'[x] = x \/ (up'[x] # <<>> /\ Head(up'[x]).type = "NICK")
  <2>1. CASE x # c
    BY <1>1, <1>3, <1>4, <1>7, <2>1 DEF OwnName
  <2>2. CASE x = c /\ fault' # "none"
    BY <1>1, <1>3, <1>4, <1>7, <2>2 DEF OwnName
  <2>3. CASE x = c /\ fault' = "none"
    BY <1>2, <1>7, <2>3
  <2> QED BY <2>1, <2>2, <2>3
<1> QED BY <1>5, <1>6, <1>7, <1>8 DEF OwnName, LineOK
\* Whose HOST, JOIN or PART it is not is at most cut loose, and told so while no
\* host has strayed.
LEMMA OthersHandled ==
    ASSUME IInv, LobbyTypeOK, LInv, NEW c \in Conn, Handle(c), NEW d \in Steady,
           d # c \/ Died \/ Head(up[c]).type \notin Asks \cup {"PART"}
    PROVE  Bystands(d) /\ (~strayed => Told(d))
<1> DEFINE l == Head(up[c])
<1>1. d \in Conn /\ Player(d) /\ OwnName(d)
  BY DEF LInv, Steady
<1>2. channel[d] # NoConn => nick[d] = d
  BY <1>1 DEF Player, Staying
<1>3. /\ hosting[c] /\ ~strayed => channel[c] = c
      /\ LineOK(c, l)
      /\ l.type # "NICK" => nick[c] = c
  BY HandledKinds DEF LInv, Astray
<1> HIDE DEF l
<1>4. CASE Died
  <2>1. Len(sent'[d]) = 0
    BY <1>1, <1>4, DiedFrame DEF NoSend
  <2> QED BY <1>4, <2>1, DiedFrame DEF Bystands, Told
<1>5. CASE Spoken(c, l)
  <2>1. \A i \in 1 .. Len(sent'[d]) : ~Enters(d, sent'[d][i]) /\ ~Outs(d, sent'[d][i])
    BY <1>1, <1>5 DEF Spoken, Mute, Lacks, Enters, Outs
  <2> QED BY <1>1, <1>5, <2>1 DEF Spoken, Bystands, Told
<1>6. CASE l.type \in Asks /\ Asked(c, l.game) /\ ~Died
  <2>1. d # c /\ nick[c] = c
    BY <1>3, <1>6 DEF l, Asks
  <2>2. /\ Enter(c, l.game, l.game) /\ l.game \in Conn /\ StateOK /\ nick' = nick
        /\ hosting' = [hosting EXCEPT ![l.game] = TRUE]
        /\ l.game = c \/ hosting[l.game]
    BY <1>6 DEF Asked, IInv
  <2>3. \A i \in 1 .. Len(sent'[d]) : ~Enters(d, sent'[d][i]) /\ ~Outs(d, sent'[d][i])
    BY <1>1, <2>1, <2>2, EnterLines
  <2>4. hosting \in [Conn -> BOOLEAN] /\ channel \in [Conn -> Conn \cup {NoConn}]
    BY DEF IInv, StateOK
  <2>5. hosting'[d] = hosting[d]
    BY <1>1, <2>1, <2>2, <2>4
  <2>6. channel'[d] = channel[d]
    BY <1>1, <2>1, <2>2, <2>4 DEF Enter
  <2> QED BY <2>2, <2>3, <2>5, <2>6 DEF Bystands, Told
<1>7. CASE l.type = "PART" /\ Parted(c) /\ ~Died
  <2>1. d # c
    BY <1>7 DEF l
  <2> QED BY <1>1, <1>2, <1>7, <2>1 DEF Parted, Bystands, Told
<1>8. CASE l.type = "KICK" /\ KickedBy(c, l.nick)
  <2>1. Bystands(d)
    BY <1>1, <1>8 DEF KickedBy, Bystands
  <2>2. ASSUME ~strayed PROVE Told(d)
    <3>1. channel[c] = c
      BY <1>3, <1>8, <2>2 DEF KickedBy
    <3>2. /\ (\E i \in 1 .. Len(sent'[d]) : Outs(d, sent'[d][i])) /\ nick[d] = d => channel'[d] = NoConn
          /\ channel'[d] # channel[d] => \E i \in 1 .. Len(sent'[d]) : Outs(d, sent'[d][i])
      BY <1>1, <1>8, <3>1 DEF KickedBy
    <3>3. nick[d] # d => channel'[d] = NoConn
      BY <1>2, <2>1 DEF Bystands
    <3> QED BY <3>2, <3>3 DEF Told
  <2> QED BY <2>1, <2>2
<1> QED BY <1>4, <1>5, <1>6, <1>7, <1>8, HandledKinds DEF l

\* A player whose HOST or JOIN is answered knows which game it is to enter.
LEMMA AskPlays ==
    ASSUME IInv, IInv', LobbyTypeOK, LInv, NEW c \in Conn, Handle(c), c \in Steady, c \notin movers',
           Head(up[c]).type \in Asks, Popped(c), Asked(c, Head(up[c]).game)
    PROVE  Player(c)' /\ Viewing(c)'
<1> DEFINE h == Head(up[c]).game
           n == Len(down[c])
           w == down'[c]
<1>1. /\ SentType' /\ UNCHANGED <<screen, game>> /\ Heard(c)
      /\ screen[c] = "left" => down'[c] = <<>>
      /\ Head(up[c]) = up[c][1] /\ 1 \in 1 .. Len(up[c])
  BY HandleFrame DEF IInv
<1>2. Player(c)
  BY DEF LInv
<1>3. nick[c] = c /\ c \in Live
  BY HandledKinds DEF Asks
<1>4. Len(up'[c]) = 0 /\ up'[c] = <<>>
  <2>1. \A j \in 1 .. Len(up[c]) : ~(1 < j)
    BY <1>1, <1>2 DEF Player, Stream
  <2>2. Len(up[c]) \in Nat \ {0} /\ Len(up'[c]) = Len(up[c]) - 1
    BY PopFacts
  <2>3. Len(up'[c]) = 0
    <3> DEFINE m == Len(up[c])
    <3>1. 2 \notin 1 .. m
      BY <2>1
    <3>2. m \in Nat \ {0} /\ Len(up'[c]) = m - 1
      BY <2>2
    <3> HIDE DEF m
    <3>3. m = 1
      BY <3>1, <3>2
    <3> QED BY <3>2, <3>3
  <2>4. up'[c] \in Seq(UpLine)
    <3>1. up[c] \in Seq(UpLine) /\ up[c] # <<>> /\ up'[c] = Tail(up[c])
      BY DEF LobbyTypeOK, Popped
    <3> QED BY <3>1, TailFacts
  <2> QED BY <2>3, <2>4
<1>5. screen[c] \in {"asking", "left"} /\ ~Entering(c)
  <2>1. Says(c, Asks) /\ up[c] # <<>>
    BY <1>1 DEF Says, Popped
  <2> QED BY <1>2, <2>1 DEF Player, Asking
<1>6. /\ h \in Conn /\ Enter(c, h, h) /\ hosting' = [hosting EXCEPT ![h] = TRUE] /\ nick' = nick
      /\ h = c \/ h \in Live
      /\ Live' = Live
  BY HandledFrame DEF Asked
<1> HIDE DEF h
<1>7. channel'[c] = h /\ hosting'[h]
  BY <1>6 DEF Enter, IInv, StateOK
<1>8. members'[h] = Append(members[h], c)
  BY <1>6 DEF Enter, IInv, StateOK
<1>9. Once(Append(members[h], c), c)
  <2>1. h \in Live'
    BY <1>3, <1>6
  <2> QED BY <1>8, <2>1 DEF IInv, Games, DoubleHasCause
<1>10. /\ \A i \in 1 .. Len(sent'[c]) : ~Outs(c, sent'[c][i])
       /\ 1 \in 1 .. Len(sent'[c])
       /\ Enters(c, sent'[c][1]) /\ sent'[c][1].game = h
       /\ \A i \in 1 .. Len(sent'[c]) : Enters(c, sent'[c][i]) => i = 1
  BY <1>3, <1>6, <1>9, EnterLines DEF IInv
<1>11. CASE screen[c] = "left" /\ w = <<>>
  <2>1. Len(w) = 0
    BY <1>11
  <2> QED BY <1>1, <1>3, <1>4, <1>6, <1>7, <1>11, <2>1
          DEF Player, Stream, Asking, Staying, Viewing, Says, Entering, w
<1>12. CASE screen[c] = "asking" /\ w = down[c] \o sent'[c]
  <2>1. /\ n \in Nat /\ Len(w) = n + Len(sent'[c]) /\ Len(sent'[c]) \in Nat
        /\ \A i \in 1 .. n : i \in 1 .. Len(w) /\ w[i] = down[c][i]
        /\ \A i \in 1 .. Len(sent'[c]) : n + i \in 1 .. Len(w) /\ w[n + i] = sent'[c][i]
        /\ \A i \in 1 .. Len(w) : \/ i \in 1 .. n
                                  \/ i > n /\ i - n \in 1 .. Len(sent'[c]) /\ w[i] = sent'[c][i - n]
    <3>1. sent'[c] \in Seq(Msg)
      BY <1>1 DEF SentType
    <3> QED BY <1>12, <3>1, HeardFacts
  <2>2. \A i \in 1 .. n : ~Enters(c, down[c][i])
    BY <1>5 DEF Entering
  <2> HIDE DEF n, w
  <2>3. ASSUME NEW i \in 1 .. Len(w), Enters(c, w[i]) PROVE i = n + 1 /\ w[i].game = h
    <3>1. i \notin 1 .. n
      BY <2>1, <2>2, <2>3
    <3>2. i - n \in 1 .. Len(sent'[c]) /\ w[i] = sent'[c][i - n]
      BY <2>1, <3>1
    <3>3. i - n = 1
      BY <1>10, <2>3, <3>2
    <3> QED BY <1>10, <2>1, <3>2, <3>3
  <2>4. ASSUME NEW i \in 1 .. Len(w), Outs(c, w[i]) PROVE i \in 1 .. n
    BY <1>10, <2>1, <2>4
  <2>5. n + 1 \in 1 .. Len(w) /\ Enters(c, w[n + 1])
    BY <1>10, <2>1
  <2>6. Stream(c)'
    BY <1>4 DEF Stream
  <2>7. CASE screen[c] = "asking"
    <3>1. ~Says(c, Asks)' /\ ~Says(c, HostOnly)'
      BY <1>4 DEF Says
    <3>2. Asking(c)'
      BY <1>1, <1>4, <2>3, <2>5, <2>7, <3>1 DEF Asking, Entering, w
    <3>3. Staying(c)'
      BY <1>1, <1>3, <1>4, <1>6, <1>7, <2>3, <2>7, <3>1 DEF Staying, MayPlay, In, w
    <3>4. ASSUME NEW i \in 1 .. Len(w), Outs(c, w[i])
          PROVE  \A k \in 1 .. i - 1 : ~Enters(c, w[k])
      <4> SUFFICES ASSUME NEW k \in 1 .. i - 1, Enters(c, w[k]) PROVE FALSE
        OBVIOUS
      <4>1. i \in 1 .. n /\ k \in 1 .. Len(w)
        BY <2>1, <2>4, <3>4
      <4>2. k = n + 1
        BY <2>3, <4>1
      <4> QED BY <2>1, <4>1, <4>2
    <3>5. Viewing(c)'
      BY <1>1, <1>7, <2>3, <2>7, <3>1, <3>4 DEF Viewing, w
    <3> QED BY <2>6, <3>2, <3>3, <3>5 DEF Player
  <2> QED BY <1>12, <2>7
<1> QED BY <1>1, <1>5, <1>11, <1>12 DEF Heard
\* A player whose PART is handled is in no game, and asks for none yet.
LEMMA PartPlays ==
    ASSUME IInv, LobbyTypeOK, LInv, NEW c \in Conn, Handle(c), c \in Steady,
           Head(up[c]).type = "PART", Popped(c), Parted(c)
    PROVE  Player(c)' /\ (Viewing(c) => Viewing(c)')
<1>1. /\ SentType' /\ UNCHANGED <<screen, game>> /\ Heard(c)
      /\ Head(up[c]) = up[c][1] /\ 1 \in 1 .. Len(up[c])
  BY HandleFrame DEF IInv
<1>2. Player(c)
  BY DEF LInv
<1>3. up[c][1].type = "PART" /\ up[c] # <<>>
  BY <1>1 DEF Popped
<1>4. channel'[c] = NoConn /\ \A i \in 1 .. Len(sent'[c]) : ~Enters(c, sent'[c][i])
  BY DEF Parted
<1>5. screen[c] # "game" /\ ~Entering(c)
  BY <1>1, <1>2, <1>3, GameTypesOnly DEF Player, Asking
<1>6. ~Entering(c)' /\ \A i \in 1 .. Len(down'[c]) : ~Enters(c, down'[c][i])
  <2>1. \A i \in 1 .. Len(down'[c]) : Enters(c, down'[c][i]) =>
           i \in 1 .. Len(down[c]) /\ down'[c][i] = down[c][i]
    BY <1>1, <1>4, HeardEnters
  <2> QED BY <1>5, <2>1 DEF Entering
<1>7. Stream(c)'
  BY <1>2, PopStream DEF Player
<1>8. Says(c, Asks)' <=> Says(c, Asks)
  BY <1>1, <1>3, PopSays DEF Asks
<1>9. ~Says(c, HostOnly)'
  <2> SUFFICES ASSUME NEW i \in 1 .. Len(up'[c]) PROVE up'[c][i].type \notin HostOnly
    BY DEF Says
  <2>1. i + 1 \in 1 .. Len(up[c]) /\ 1 < i + 1 /\ up'[c][i] = up[c][i + 1]
    BY PopFacts
  <2> QED BY <1>1, <1>2, <1>3, <2>1 DEF Player, Stream
<1>10. Asking(c)'
  BY <1>1, <1>2, <1>5, <1>6, <1>8 DEF Player, Asking
<1>11. Staying(c)'
  BY <1>1, <1>4, <1>5, <1>6, <1>9 DEF Staying, In
<1>12. Viewing(c) => Viewing(c)'
  BY <1>1, <1>4, <1>5, <1>6 DEF Viewing
<1> QED BY <1>7, <1>10, <1>11, <1>12 DEF Player

\* Handling a line keeps what is known of every player.
LEMMA HandledPlayers ==
    ASSUME IInv, IInv', LobbyTypeOK, LInv, NEW c \in Conn, Handle(c), NEW d \in Steady, d \notin movers'
    PROVE  Player(d)' /\ (~strayed' => Viewing(d)')
<1> DEFINE l == Head(up[c])
<1>1. /\ SentType' /\ UNCHANGED <<screen, game>> /\ d \in Conn /\ Heard(d)
      /\ d # c => up'[d] = up[d]
      /\ fault' = "none" => Popped(c)
      /\ fault' # "none" => up' = up
      /\ ~strayed' => ~strayed
  BY HandleFrame DEF IInv, Steady
<1>2. Player(d) /\ (~strayed => Viewing(d)) /\ Freed' = Freed
  BY HandledFrame DEF LInv
<1>3. Died => fault' # "none"
  BY DiedFrame
<1> HIDE DEF l
<1>4. CASE d # c \/ Died \/ l.type \notin Asks \cup {"PART"}
  <2>1. Bystands(d) /\ (~strayed => Told(d))
    BY <1>4, OthersHandled DEF l
  <2>2. KeptUp(d)
    BY <1>1, <1>3, <1>4 DEF KeptUp, l
  <2>3. Player(d)'
    BY <1>1, <1>2, <2>1, <2>2, BystanderPlays
  <2>4. ~strayed' => Viewing(d)'
    BY <1>1, <1>2, <2>1, <2>2, BystanderViews
  <2> QED BY <2>3, <2>4
<1>5. CASE d = c /\ ~Died /\ l.type \in Asks
  <2>1. Popped(c) /\ Asked(c, l.game)
    BY <1>5, HandledKinds DEF l, Asks
  <2> QED BY <1>5, <2>1, AskPlays DEF l
<1>6. CASE d = c /\ ~Died /\ l.type = "PART"
  <2>1. Popped(c) /\ Parted(c)
    BY <1>6, HandledKinds DEF l, Asks
  <2> QED BY <1>1, <1>2, <1>6, <2>1, PartPlays DEF l
<1> QED BY <1>4, <1>5, <1>6
\* Nothing happens to the player x.
Idle(x) ==
    /\ up'[x] = up[x] /\ down'[x] = down[x] /\ screen'[x] = screen[x] /\ game'[x] = game[x]
    /\ nick'[x] = nick[x] /\ hosting'[x] = hosting[x] /\ channelName'[x] = channelName[x]
    /\ channel'[x] = channel[x] /\ gameId'[x] = gameId[x] /\ movers' = movers

\* Then it knows what it knew.
LEMMA IdlePlays ==
    ASSUME NEW x \in Conn, Idle(x), Freed \subseteq Freed'
    PROVE  /\ OwnName(x) => OwnName(x)'
           /\ Begins(x) => Begins(x)'
           /\ Player(x) => Player(x)'
           /\ Viewing(x) => Viewing(x)'
<1> USE DEF Idle
<1>1. OwnName(x) => OwnName(x)'
  BY DEF OwnName, LineOK
<1>2. Begins(x) => Begins(x)'
  BY DEF Begins
<1>3. Player(x) => Player(x)'
  BY DEF Player, Stream, Asking, Staying, MayPlay, In, Says, Entering
<1>4. Viewing(x) => Viewing(x)'
  BY DEF Viewing, Outing, Says
<1> QED BY <1>1, <1>2, <1>3, <1>4

\* The steps of the players keep what is known of them.
LEMMA PlayInv ==
    ASSUME IInv, LobbyTypeOK, LInv, NEW c \in Conn, Play(c)
    PROVE  LInv'
<1>1. /\ movers' = movers /\ Freed' = Freed /\ strayed' = strayed
      /\ Live \subseteq Live' /\ hosting' = hosting /\ channel' = channel
      /\ ~hosting[c] \/ Live' = Live
      /\ Live' \subseteq Live \cup {c}
  <2>1. CASE Login(c)
    <3>1. connections' = Append(connections, c) /\ gameId' = [gameId EXCEPT ![c] = nextGameId]
          /\ gameId[c] = 0
      BY <2>1 DEF Login, Accept
    <3>2. connections \in Seq(Conn) /\ nextGameId \in Nat \ {0} /\ gameId \in [Conn -> Nat]
      BY DEF IInv, StateOK
    <3>3. Live' = Live \cup {c}
      BY <3>1, <3>2, AppendProperties DEF Live
    <3>4. ~hosting[c] /\ c \notin Freed
      BY <3>1 DEF IInv, Fresh, Freed
    <3>5. Freed' = Freed
      BY <3>1, <3>2, <3>3, <3>4 DEF Freed
    <3> QED BY <2>1, <3>3, <3>4, <3>5 DEF Login, Accept, gameVars
  <2>2. CASE Say(c) \/ Leave(c) \/ Read(c) \/ Stall(c)
    <3>1. UNCHANGED vars /\ strayed' = strayed
      BY <2>2 DEF Say, Leave, Read, Stall
    <3> QED BY <3>1 DEF vars, connVars, gameVars, Live, Freed
  <2> QED BY <2>1, <2>2 DEF Play
<1>2. ASSUME NEW x \in Conn \ {c} PROVE Idle(x)
  <2>1. CASE Login(c)
    BY <2>1 DEF Login, Accept, userVars, gameVars, Idle, LobbyTypeOK, IInv, StateOK
  <2>2. CASE Say(c) \/ Leave(c) \/ Read(c) \/ Stall(c)
    <3>1. UNCHANGED <<nick, hosting, channelName, channel, gameId, movers>>
      BY <2>2 DEF Say, Leave, Read, Stall, vars, connVars, userVars, gameVars
    <3>2. up'[x] = up[x] /\ down'[x] = down[x] /\ screen'[x] = screen[x] /\ game'[x] = game[x]
      <4>1. CASE Say(c)
        BY <4>1 DEF Say, LobbyTypeOK
      <4>2. CASE Leave(c)
        BY <4>2 DEF Leave, LobbyTypeOK
      <4>3. CASE Read(c)
        BY <4>3 DEF Read, LobbyTypeOK
      <4>4. CASE Stall(c)
        BY <4>4 DEF Stall, playerVars
      <4> QED BY <2>2, <4>1, <4>2, <4>3, <4>4
    <3> QED BY <3>1, <3>2 DEF Idle
  <2> QED BY <2>1, <2>2 DEF Play
<1>3. OwnName(c) /\ Begins(c)
  BY DEF LInv
<1>4. gameId[c] = 0 => c \in Steady
  BY <1>3 DEF Begins, Steady, Freed
<1>5. /\ OwnName(c)' /\ Begins(c)'
      /\ c \in Steady => Player(c)'
      /\ c \in Steady /\ ~strayed => Viewing(c)'
  <2>1. c \in Steady => Player(c) /\ (~strayed => Viewing(c))
    BY DEF LInv
  <2>2. CASE Login(c)
    <3>1. c \in Steady
      BY <1>4, <2>2 DEF Login, Accept
    <3> QED BY <1>3, <2>1, <2>2, <3>1, LoginPlays
  <2>3. CASE Say(c)
    BY <1>3, <2>1, <2>3, SayPlays
  <2>4. CASE Leave(c)
    BY <1>3, <2>1, <2>4, LeavePlays
  <2>5. CASE Read(c)
    BY <1>3, <1>4, <2>1, <2>5, ReadPlays
  <2>6. CASE Stall(c)
    <3>1. Idle(c)
      BY <2>6 DEF Stall, playerVars, vars, connVars, userVars, gameVars, Idle
    <3> QED BY <1>1, <1>3, <2>1, <3>1, IdlePlays
  <2> QED BY <2>2, <2>3, <2>4, <2>5, <2>6 DEF Play
<1>6. Steady' = Steady
  BY <1>1 DEF Steady
<1>7. \A x \in Conn : OwnName(x)' /\ Begins(x)'
  BY <1>1, <1>2, <1>5, IdlePlays DEF LInv
<1>8. \A x \in Steady : Player(x)'
  BY <1>1, <1>2, <1>5, IdlePlays DEF LInv, Steady
<1>9. ~strayed => \A x \in Steady : Viewing(x)'
  BY <1>1, <1>2, <1>5, IdlePlays DEF LInv, Steady
<1>10. Astray' => Astray
  BY <1>1 DEF Astray
<1> QED BY <1>1, <1>6, <1>7, <1>8, <1>9, <1>10 DEF LInv

\* So do the steps of the server.
LEMMA ServeInv ==
    ASSUME IInv, IInv', LobbyTypeOK, LInv, NEW c \in Conn, Serve(c)
    PROVE  LInv'
<1>1. CASE Chunk(c) \/ Unlock(c) \/ Fail(c)
  <2>1. /\ UNCHANGED <<connections, gameId, nick, hosting, channelName, channel, movers>>
        /\ UNCHANGED <<up, down, screen, game, strayed>>
    BY <1>1 DEF Chunk, RecvChunk, Unlock, EndChunk, Fail, RecvFail, connVars, userVars, gameVars,
                lobbyVars, playerVars
  <2>2. Live' = Live /\ Freed' = Freed /\ Steady' = Steady /\ Astray' = Astray
    BY <2>1 DEF Live, Freed, Steady, Astray
  <2>3. \A x \in Conn : Idle(x)
    BY <2>1 DEF Idle
  <2>4. \A x \in Conn : OwnName(x)' /\ Begins(x)'
    BY <2>2, <2>3, IdlePlays DEF LInv
  <2>5. \A x \in Steady : Player(x)' /\ (~strayed => Viewing(x)')
    BY <2>2, <2>3, IdlePlays DEF LInv, Steady
  <2> QED BY <2>1, <2>2, <2>4, <2>5 DEF LInv
<1>2. CASE Handle(c)
  <2>1. Steady' \subseteq Steady /\ \A x \in Steady' : x \notin movers'
    BY <1>2, HandledFrame DEF Steady
  <2>2. \A x \in Conn : OwnName(x)' /\ Begins(x)'
    BY <1>2, HandledNames
  <2>3. \A x \in Steady' : Player(x)' /\ (~strayed' => Viewing(x)')
    BY <1>2, <2>1, HandledPlayers
  <2>4. ~strayed' => ~Astray'
    BY <1>2, HandleFrame DEF IInv
  <2> QED BY <2>2, <2>3, <2>4 DEF LInv
<1>3. CASE Remove(c)
  <2>1. /\ Teardown(c)
        /\ UNCHANGED <<gameId, nick, hosting, channelName, movers>>
        /\ UNCHANGED <<up, down, screen, game, strayed>>
    BY <1>3 DEF Remove, Teardown, userVars, lobbyVars, playerVars
  <2>2. /\ channel' = [d \in Conn |-> IF d \in {e \in Live : channel[e] = c} THEN NoConn ELSE channel[d]]
        /\ connections' = EraseSkipping(connections, c) /\ c \in Live /\ sent' = NoSend
    BY <2>1 DEF Teardown, Loose
  <2>3. connections \in Seq(Conn) /\ Once(connections, c)
    BY DEF IInv, StateOK, Ordered
  <2>4. Live' \subseteq Live /\ c \notin Live'
    BY <2>2, <2>3, EraseSkippingProperties DEF Live
  <2>5. gameId[c] # 0
    BY <2>2 DEF IInv, Ordered
  <2>6. c \in Freed' /\ Freed \subseteq Freed' /\ Steady' \subseteq Steady
    BY <2>1, <2>4, <2>5 DEF Freed, Steady
  <2>7. ASSUME NEW x \in Conn PROVE OwnName(x)' /\ Begins(x)'
    <3>1. OwnName(x) /\ Begins(x)
      BY DEF LInv
    <3> QED BY <2>1, <3>1 DEF OwnName, LineOK, Begins
  <2>8. ASSUME NEW x \in Steady' PROVE Player(x)' /\ (~strayed => Viewing(x)')
    <3>1. x \in Conn /\ x \in Steady /\ Player(x) /\ (~strayed => Viewing(x))
      BY <2>6 DEF LInv, Steady
    <3>2. sent'[x] = <<>> /\ Len(sent'[x]) = 0
      BY <2>2, <3>1 DEF NoSend
    <3>3. Bystands(x) /\ Told(x)
      BY <2>1, <2>2, <2>6, <3>1, <3>2 DEF Bystands, Told
    <3>4. down[x] \in Seq(Msg) /\ down[x] \o <<>> = down[x]
      BY <3>1 DEF LobbyTypeOK
    <3>5. KeptUp(x) /\ Heard(x)
      BY <2>1, <3>2, <3>4 DEF KeptUp, Heard
    <3>6. SentType'
      BY <2>2, NoSendType DEF SentType, NoSend
    <3>7. Player(x)'
      BY <2>1, <3>1, <3>3, <3>5, <3>6, BystanderPlays
    <3>8. ~strayed => Viewing(x)'
      BY <2>1, <2>6, <3>1, <3>3, <3>5, <3>6, BystanderViews
    <3> QED BY <3>7, <3>8
  <2>9. Astray' => Astray
    <3> SUFFICES ASSUME NEW h \in Live', hosting'[h], channel'[h] # h, ~Astray
                 PROVE  FALSE
      BY DEF Astray
    <3>1. h \in Live /\ h \in Conn /\ h # c
      BY <2>3, <2>4, LiveType
    <3>2. channel[h] = h
      BY <2>1, <3>1 DEF Astray
    <3> QED BY <2>2, <3>1, <3>2
  <2> QED BY <2>1, <2>7, <2>8, <2>9 DEF LInv
<1> QED BY <1>1, <1>2, <1>3 DEF Serve
\* The invariant holds throughout.
LEMMA PlayersInv == LobbySpec => [](IInv /\ FaultHasCause /\ LobbyTypeOK /\ LInv)
<1>1. LobbyInit => LInv
  <2> SUFFICES ASSUME LobbyInit PROVE LInv
    OBVIOUS
  <2>1. /\ up = [c \in Conn |-> <<>>] /\ down = [c \in Conn |-> <<>>]
        /\ screen = [c \in Conn |-> "off"] /\ strayed = FALSE
        /\ connections = <<>> /\ gameId = [c \in Conn |-> 0]
        /\ nick = [c \in Conn |-> NoName] /\ hosting = [c \in Conn |-> FALSE]
        /\ channel = [c \in Conn |-> NoConn] /\ movers = {}
    BY DEF LobbyInit, Init
  <2>2. \A c \in Conn : Len(up[c]) = 0 /\ Len(down[c]) = 0 /\ screen[c] = "off"
    BY <2>1
  <2>3. \A c \in Conn : OwnName(c) /\ Begins(c)
    BY <2>1, <2>2 DEF OwnName, Begins
  <2>4. \A c \in Conn : Player(c)
    BY <2>1, <2>2 DEF Player, Stream, Asking, Staying, Says, Entering
  <2>5. \A c \in Conn : Viewing(c)
    BY <2>1, <2>2 DEF Viewing, Says
  <2>6. ~Astray
    BY <2>1 DEF Astray, Live, Range
  <2> QED BY <2>3, <2>4, <2>5, <2>6 DEF LInv, Steady
<1>2. LInv /\ IInv /\ IInv' /\ LobbyTypeOK /\ [LobbyNext]_allVars => LInv'
  <2> SUFFICES ASSUME LInv, IInv, IInv', LobbyTypeOK, [LobbyNext]_allVars PROVE LInv'
    OBVIOUS
  <2>1. CASE LobbyNext
    BY <2>1, PlayInv, ServeInv DEF LobbyNext
  <2>2. CASE UNCHANGED allVars
    <3>1. \A x \in Conn : Idle(x)
      BY <2>2 DEF allVars, vars, connVars, userVars, gameVars, lobbyVars, playerVars, Idle
    <3>2. Live' = Live /\ Freed' = Freed /\ Steady' = Steady /\ Astray' = Astray /\ strayed' = strayed
      BY <2>2 DEF allVars, vars, connVars, gameVars, lobbyVars, Live, Freed, Steady, Astray
    <3>3. \A x \in Conn : OwnName(x)' /\ Begins(x)'
      BY <3>1, <3>2, IdlePlays DEF LInv
    <3>4. \A x \in Steady : Player(x)' /\ (~strayed => Viewing(x)')
      BY <3>1, <3>2, IdlePlays DEF LInv, Steady
    <3> QED BY <3>2, <3>3, <3>4 DEF LInv
  <2> QED BY <2>1, <2>2
<1> QED BY <1>1, <1>2, LobbyInv, InvCorrect, PTL DEF LobbySpec

\* When nothing is under way, every player that did not leave or change game by
\* itself shows the game the server has it in, for any number of players, games
\* and lines, until a host has strayed: the TCP streams keep order, so a player
\* hears of the end of its stay after its begin.
THEOREM ViewsCorrect == LobbySpec => []ViewsMeet
<1>1. IInv /\ LInv => ViewsMeet
  <2> SUFFICES ASSUME LInv, NEW c \in Live \ movers, c \in Conn,
                      up[c] = <<>>, down[c] = <<>>, ~strayed
               PROVE  /\ screen[c] # "asking"
                      /\ screen[c] = "lobby" => channel[c] = NoConn
                      /\ screen[c] = "game" => channel[c] = game[c] \/ game[c] \notin Live
    BY LiveType DEF ViewsMeet, IInv, StateOK
  <2>1. c \in Steady
    BY DEF Steady, Freed
  <2>2. Player(c) /\ Viewing(c)
    BY <2>1 DEF LInv
  <2>3. Len(up[c]) = 0 /\ Len(down[c]) = 0
    OBVIOUS
  <2>4. \A T : ~Says(c, T)
    BY <2>3 DEF Says
  <2>5. ~Entering(c) /\ ~Outing(c)
    BY <2>3 DEF Entering, Outing
  <2> QED BY <2>2, <2>4, <2>5 DEF Player, Asking, Viewing, Freed
<1> QED BY <1>1, PlayersInv, PTL

\* A line that names a player names one that has logged in, and who has a nick has
\* been accepted.
KnownOK ==
    \A c \in Conn :
        /\ nick[c] = c => gameId[c] # 0
        /\ \A i \in 1 .. Len(up[c]) : Naming(up[c][i]) => up[c][i].nick \in Known

LEMMA KnownStep ==
    ASSUME IInv, LobbyTypeOK, LInv, KnownOK, [LobbyNext]_allVars
    PROVE  KnownOK'
<1> DEFINE Kept(x) == \A i \in 1 .. Len(up'[x]) : \E j \in 1 .. Len(up[x]) : up'[x][i] = up[x][j]
<1>1. ASSUME NEW x \in Conn, gameId[x] # 0 => gameId'[x] # 0, nick'[x] = nick[x] \/ gameId'[x] # 0, Known \subseteq Known',
             \A i \in 1 .. Len(up'[x]) : \/ \E j \in 1 .. Len(up[x]) : up'[x][i] = up[x][j]
                                         \/ Naming(up'[x][i]) => up'[x][i].nick \in Known'
      PROVE  /\ nick'[x] = x => gameId'[x] # 0
             /\ \A i \in 1 .. Len(up'[x]) : Naming(up'[x][i]) => up'[x][i].nick \in Known'
  BY <1>1 DEF KnownOK
<1>2. (\A x \in Conn : /\ nick'[x] = x => gameId'[x] # 0
                       /\ \A i \in 1 .. Len(up'[x]) : Naming(up'[x][i]) => up'[x][i].nick \in Known') => KnownOK'
  BY DEF KnownOK, Naming
<1>3. CASE UNCHANGED <<up, nick, gameId>>
  BY <1>3 DEF KnownOK, Naming, Known
<1>4. ASSUME NEW c \in Conn, Login(c) PROVE KnownOK'
  <2>1. /\ gameId' = [gameId EXCEPT ![c] = nextGameId] /\ nick' = nick
        /\ up' = [up EXCEPT ![c] = <<Line("NICK", c, NoName)>>]
    BY <1>4 DEF Login, Accept, userVars
  <2>2. gameId \in [Conn -> Nat] /\ nextGameId # 0 /\ up \in [Conn -> Seq(UpLine)]
    BY DEF IInv, StateOK, LobbyTypeOK
  <2>3. Known' = Known
    BY <2>1 DEF Known
  <2>4. ASSUME NEW x \in Conn, NEW i \in 1 .. Len(up'[x])
        PROVE  \/ \E j \in 1 .. Len(up[x]) : up'[x][i] = up[x][j]
               \/ ~Naming(up'[x][i])
    <3>1. CASE x = c
      <4>1. up'[x] = <<Line("NICK", c, NoName)>>
        BY <2>1, <2>2, <3>1
      <4>2. up'[x][i].type = "NICK"
        BY <2>4, <4>1 DEF Line
      <4> QED BY <4>2 DEF Naming
    <3>2. CASE x # c
      BY <2>1, <2>2, <3>2
    <3> QED BY <3>1, <3>2
  <2>5. \A x \in Conn : gameId[x] # 0 => gameId'[x] # 0
    BY <2>1, <2>2
  <2> QED BY <1>1, <1>2, <2>1, <2>3, <2>4, <2>5
<1>5. ASSUME NEW c \in Conn, Say(c) PROVE KnownOK'
  <2>1. PICK l \in Lines : Fits(c, l) /\ up' = [up EXCEPT ![c] = Append(@, l)]
    BY <1>5 DEF Say
  <2>2. UNCHANGED <<nick, gameId>> /\ Known' = Known
    BY <1>5 DEF Say, vars, connVars, userVars, Known
  <2>3. Naming(l) => l.nick \in Known
    BY <2>1, FitsFields, BareKinds DEF Naming, ToTable, HostOnly, TalkTypes
  <2>4. l \in UpLine
    BY <2>1, FitsType
  <2>5. ASSUME NEW x \in Conn, NEW i \in 1 .. Len(up'[x])
        PROVE  \/ \E j \in 1 .. Len(up[x]) : up'[x][i] = up[x][j]
               \/ up'[x][i] = l
    <3>1. CASE x = c
      <4>1. up[c] \in Seq(UpLine) /\ up'[x] = Append(up[c], l)
        BY <2>1, <3>1 DEF LobbyTypeOK
      <4> QED BY <2>4, <2>5, <3>1, <4>1, AppendFacts
    <3>2. CASE x # c
      BY <2>1, <3>2 DEF LobbyTypeOK
    <3> QED BY <3>1, <3>2
  <2> QED BY <1>1, <1>2, <2>2, <2>3, <2>5
<1>6. ASSUME NEW c \in Conn, Handle(c) PROVE KnownOK'
  <2>1. gameId' = gameId /\ c \in Live /\ gameId[c] # 0
    BY <1>6, HandledFrame, HandledKinds DEF IInv, Ordered
  <2>2. \A x \in Conn : nick'[x] = nick[x] \/ (x = c /\ nick'[x] = x)
    BY <1>6, HandledKinds, DiedFrame DEF Spoken, Asked, Parted, KickedBy
  <2>3. Known \subseteq Known'
    BY <2>2 DEF Known
  <2>4. ASSUME NEW x \in Conn, NEW i \in 1 .. Len(up'[x])
        PROVE  \E j \in 1 .. Len(up[x]) : up'[x][i] = up[x][j]
    <3>1. up'[x] = up[x] \/ (x = c /\ Popped(c))
      BY <1>6, HandleFrame DEF IInv
    <3> QED BY <3>1, PopFacts
  <2> QED BY <1>1, <1>2, <2>1, <2>2, <2>3, <2>4
<1>7. ASSUME NEW c \in Conn, Leave(c) \/ Read(c) \/ Stall(c) PROVE UNCHANGED <<up, nick, gameId>>
  BY <1>7 DEF Leave, Read, Stall, vars, connVars, userVars
<1>8. ASSUME NEW c \in Conn, Chunk(c) \/ Unlock(c) \/ Fail(c) \/ Remove(c) PROVE UNCHANGED <<up, nick, gameId>>
  BY <1>8 DEF Chunk, RecvChunk, Unlock, EndChunk, Fail, RecvFail, Remove, Teardown, connVars, userVars, lobbyVars
<1>9. CASE UNCHANGED allVars
  BY <1>3, <1>9 DEF allVars, vars, connVars, userVars, lobbyVars
<1> QED BY <1>3, <1>4, <1>5, <1>6, <1>7, <1>8, <1>9 DEF LobbyNext, Play, Serve

LEMMA KnownInv == LobbySpec => []KnownOK
<1>1. LobbyInit => KnownOK
  <2> SUFFICES ASSUME LobbyInit PROVE KnownOK
    OBVIOUS
  <2>1. \A c \in Conn : Len(up[c]) = 0 /\ nick[c] = NoName
    BY DEF LobbyInit, Init
  <2> QED BY <2>1, OwnNickAssumption DEF KnownOK
<1> QED BY <1>1, KnownStep, PlayersInv, PTL DEF LobbySpec

\* A search among the connections finds who is there.
LEMMA FindsLive ==
    ASSUME IInv, NEW S, NEW x \in Live \cap S
    PROVE  FirstIn(connections, S) # NoConn
<1>1. connections \in Seq(Conn)
  BY DEF IInv, StateOK
<1>2. Positions(connections, S) # {}
  BY <1>1 DEF Positions, Live, Range
<1>3. Select(connections, S)[1] \in Live
  BY <1>1, <1>2, SelectProperties DEF Live
<1> QED BY <1>1, <1>2, <1>3, LiveType DEF FirstIn

\* What a handler's assertion can fail of.
LEMMA AssertCause ==
    ASSUME IInv, LobbyTypeOK, LInv, KnownOK, NEW c \in Conn, Handle(c), fault' = "assert"
    PROVE  LET l == Head(up[c])
           IN  \/ c \in movers
               \/ PutOut(c, l) \/ NamesGone(l) \/ GameIsOver(l)
               \/ l.type = "HOST" /\ strayed
<1> DEFINE l == Head(up[c])
<1>1. /\ c \in Live /\ fault = "none" /\ LineOK(c, l) /\ (l.type # "NICK" => nick[c] = c)
  BY HandledKinds DEF Executing
<1>2. Dispatch(c, l) /\ l \in UpLine /\ l = up[c][1] /\ 1 \in 1 .. Len(up[c])
  BY HandleFrame DEF IInv
<1> SUFFICES ASSUME c \notin movers
             PROVE  PutOut(c, l) \/ NamesGone(l) \/ GameIsOver(l) \/ (l.type = "HOST" /\ strayed)
  OBVIOUS
<1>3. c \in Steady /\ OwnName(c)
  BY <1>1 DEF Steady, Freed, LInv
<1>4. Player(c) /\ (~strayed => Viewing(c) /\ ~Astray)
  BY <1>3 DEF LInv
<1>5. \A T : l.type \in T => Says(c, T)
  BY <1>2 DEF Says
<1> HIDE DEF l
<1>6. CASE l.type \in {"NICK", "LIST", "QUIT"} \cup Bare
  <2>1. \/ HandleNICK(c, l.nick) \/ HandleLIST(c) \/ HandleQUIT(c) \/ HandleIgnored(c)
        \/ HandleFixed(c, Answered[l.type])
        \/ \E v : HandleSETCODEPAGE(c, v) \/ HandleSETLOCALE(c, v)
    <3>1. CASE l.type \in Ignored \cup DOMAIN Answered
      BY <1>2, <3>1 DEF Dispatch, Ignored, Answered
    <3>2. CASE l.type \in {"NICK", "LIST", "QUIT", "SETCODEPAGE", "SETLOCALE"}
      BY <1>2, <3>2 DEF Dispatch, Ignored, Answered
    <3> QED BY <1>6, <3>1, <3>2 DEF Bare
  <2> QED BY <1>1, <2>1 DEF HandleNICK, HandleLIST, HandleQUIT, HandleIgnored, HandleFixed, HandleSETCODEPAGE,
                            HandleSETLOCALE
<1>7. CASE l.type = "HOST"
  <2>1. HandleHost(c, c) /\ nick[c] = c
    BY <1>1, <1>2, <1>7 DEF Dispatch, LineOK, Ignored, Answered
  <2>2. hosting[c]
    BY <1>1, <2>1 DEF HandleHost, Run, Die
  <2>3. ASSUME ~strayed PROVE FALSE
    <3>1. channel[c] = c /\ c # NoConn
      BY <1>1, <1>4, <2>2, <2>3, NoConnAssumption DEF Astray
    <3>2. Says(c, {"PART"})
      BY <1>4, <1>5, <1>7, <2>3, <3>1 DEF Viewing, Asks
    <3>3. PICK j \in 1 .. Len(up[c]) : up[c][j].type = "PART"
      BY <3>2 DEF Says
    <3>4. 1 < j
      BY <1>2, <1>7, <3>3
    <3> QED BY <1>2, <1>4, <1>7, <3>3, <3>4 DEF Player, Stream, Asks
  <2> QED BY <1>7, <2>3
<1>8. CASE l.type \in HostOnly
  <2>1. hosting[c] /\ l.game = c /\ nick[c] = c
    BY <1>1, <1>4, <1>5, <1>8 DEF Player, Staying, LineOK, HostOnly
  <2>2. channelName[c] = c
    BY <1>3, <2>1 DEF OwnName
  <2>3. CASE l.type = "STARTG"
    <3>1. HandleSTARTG(c, c)
      BY <1>2, <2>1, <2>3 DEF Dispatch, Ignored, Answered
    <3> QED BY <1>1, <2>1, <2>2, <3>1 DEF HandleSTARTG, Run, Die
  <2>4. CASE l.type = "KICK"
    <3>1. HandleKICK(c, c, l.nick) /\ l.nick # c
      BY <1>1, <1>2, <2>1, <2>4 DEF Dispatch, LineOK, Ignored, Answered
    <3> QED BY <1>1, <2>1, <2>2, <3>1 DEF HandleKICK, KickAllowed, Run, Die
  <2>5. CASE l.type = "TOPIC"
    <3>1. \E t \in TopicStr : HandleTOPIC(c, c, t)
      BY <1>2, <2>1, <2>5 DEF Dispatch, Ignored, Answered
    <3> QED BY <1>1, <2>1, <2>2, <3>1 DEF HandleTOPIC, Run, Die
  <2> QED BY <1>8, <2>3, <2>4, <2>5 DEF HostOnly
<1>9. ASSUME Stays(l), channel[c] # NoConn PROVE l.game = GameName(channel[c])
  <2>1. channel[c] = l.game
    BY <1>2, <1>4, <1>9 DEF Player, Staying, In, l
  <2>2. channel[c] \in Live /\ hosting[channel[c]] /\ channel[c] \in Conn
    BY <1>1, <1>9 DEF IInv, StateOK, Games, RosterCoversMembers
  <2> QED BY <1>9, <2>1, <2>2 DEF LInv, OwnName, GameName
<1>10. CASE l.type = "PART"
  <2>1. HandlePART(c, l.game)
    BY <1>2, <1>10 DEF Dispatch, Ignored, Answered
  <2>2. channel[c] # NoConn
    BY <1>1, <2>1 DEF HandlePART
  <2> QED BY <1>1, <1>9, <1>10, <2>1, <2>2 DEF HandlePART, PartHost, PartGuest, Run, Die, Stays
<1>11. ASSUME Naming(l), FirstIn(connections, Named(l.nick)) = NoConn PROVE NamesGone(l)
  <2>1. l.nick \in Known /\ l.nick \in Conn
    BY <1>2, <1>11 DEF KnownOK, Known, l
  <2>2. l.nick \in Named(l.nick) /\ gameId[l.nick] # 0
    BY <2>1 DEF KnownOK, Known, Named
  <2>3. l.nick \notin Live
    BY <1>11, <2>2, FindsLive
  <2> QED BY <1>11, <2>1, <2>2, <2>3 DEF NamesGone, Freed
<1>12. CASE l.type = "GAMEOPT"
  <2>1. HandleGAMEOPTGame(c) \/ HandleGAMEOPTNick(c, l.nick)
    BY <1>2, <1>12 DEF Dispatch, Ignored, Answered
  <2>2. channel[c] = NoConn
    BY <1>1, <2>1 DEF HandleGAMEOPTGame, HandleGAMEOPTNick, Run, Die
  <2> QED BY <1>12, <2>2 DEF PutOut, ToTable
<1>13. CASE l.type \in {"PRIVMSG", "PAGE"} /\ l.nick = NoName
  <2>1. ToGame(c, l.type, l.game)
    BY <1>2, <1>13 DEF Dispatch, Ignored, Answered, HandlePRIVMSGGame, HandlePAGEGame
  <2>2. ~(channel[c] # NoConn /\ l.game = GameName(channel[c]))
    BY <1>1, <2>1 DEF ToGame, Run, Die
  <2> QED BY <1>9, <1>13, <2>2 DEF PutOut, ToTable, Stays
<1>14. CASE l.type \in {"PRIVMSG", "PAGE"} /\ l.nick # NoName
  <2>1. ToNick(c, l.type, l.nick)
    BY <1>2, <1>14 DEF Dispatch, Ignored, Answered, HandlePRIVMSGNick, HandlePAGENick
  <2>2. FirstIn(connections, Named(l.nick)) = NoConn
    BY <1>1, <2>1 DEF ToNick, Run, Die
  <2> QED BY <1>11, <1>14, <2>2 DEF Naming
<1>15. CASE l.type \in {"GETCODEPAGE", "GETLOCALE"}
  <2>1. HandleGETCODEPAGE(c, {l.nick}) \/ HandleGETLOCALE(c, {l.nick})
    BY <1>2, <1>15 DEF Dispatch, Ignored, Answered
  <2>2. FirstIn(connections, Named(l.nick)) = NoConn
    BY <1>1, <2>1 DEF HandleGETCODEPAGE, HandleGETLOCALE, HandleLookup, Run, Die
  <2>3. l.nick # NoName
    BY <1>2, <1>15, OwnNickAssumption DEF UpLine
  <2> QED BY <1>11, <1>15, <2>2, <2>3 DEF Naming
<1>16. CASE l.type = "JOIN"
  <2>1. HandleJoin(c, l.game)
    BY <1>2, <1>16 DEF Dispatch, Ignored, Answered
  <2>2. FirstIn(connections, Game(l.game)) = NoConn
    BY <1>1, <2>1 DEF HandleJoin, Run, Die
  <2>3. ASSUME l.game \in Live, hosting[l.game] PROVE FALSE
    <3>1. l.game \in Conn
      BY <2>3, LiveType DEF IInv, StateOK
    <3>2. l.game \in Game(l.game)
      BY <2>3, <3>1 DEF Game, LInv, OwnName
    <3> QED BY <2>2, <2>3, <3>2, FindsLive
  <2> QED BY <1>16, <2>3 DEF GameIsOver
<1>17. \/ l.type \in {"NICK", "LIST", "QUIT"} \cup Bare
       \/ l.type \in HostOnly \cup {"HOST", "JOIN", "PART"}
       \/ l.type \in TalkTypes
  BY <1>2 DEF UpLine, SaidType
<1> QED BY <1>6, <1>7, <1>8, <1>10, <1>12, <1>13, <1>14, <1>15, <1>16, <1>17 DEF TalkTypes

\* Once the process has died nothing happens to it any more.
LEMMA DeadStays ==
    ASSUME fault # "none", [LobbyNext]_allVars
    PROVE  UNCHANGED <<fault, up, mutex, movers, strayed, ended, connections, gameId, hosting, channel>>
<1>1. ~LobbyNext
  <2> SUFFICES ASSUME NEW c \in Conn, Play(c) \/ Serve(c) PROVE FALSE
    BY DEF LobbyNext
  <2>1. ~Play(c)
    BY DEF Play, Login, Accept, Say, Leave, Read, Stall
  <2>2. ~Handle(c)
    BY Executes DEF Handle, Executing
  <2>3. ~(Chunk(c) \/ Unlock(c) \/ Fail(c) \/ Remove(c))
    BY DEF Chunk, RecvChunk, Unlock, EndChunk, Fail, RecvFail, Remove, Teardown
  <2> QED BY <2>1, <2>2, <2>3 DEF Serve
<1> QED BY <1>1 DEF allVars, vars, connVars, gameVars, lobbyVars

\* Only the handling of a line can kill the process.
LEMMA DiesHandling ==
    ASSUME fault = "none", fault' # "none", [LobbyNext]_allVars
    PROVE  \E c \in Conn : Handle(c)
<1>1. PICK c \in Conn : Play(c) \/ Serve(c)
  BY DEF LobbyNext, allVars, vars
<1>2. Play(c) => fault' = fault
  BY DEF Play, Login, Accept, Say, Leave, Read, Stall, vars
<1>3. Chunk(c) \/ Unlock(c) \/ Fail(c) \/ Remove(c) => fault' = fault
  BY DEF Chunk, RecvChunk, Unlock, EndChunk, Fail, RecvFail, Remove, Teardown
<1> QED BY <1>1, <1>2, <1>3 DEF Serve

\* Whatever lines cross, the server fails of an assertion only over something said
\* in a game by a player that is out of it, over a line that names a player that is
\* gone or a JOIN of a game that is, over a line of somebody that left or changed
\* game by itself, or over a HOST once a host has strayed: never over a host's own
\* KICK, STARTG or TOPIC, nor over a PART, for any number of players and lines.
THEOREM CrossedCorrect == LobbySpec => []OnlyCrossedLinesFail
<1>1. LobbyInit => OnlyCrossedLinesFail
  BY DEF LobbyInit, Init, OnlyCrossedLinesFail
<1>2. IInv /\ LobbyTypeOK /\ LInv /\ KnownOK /\ OnlyCrossedLinesFail /\ [LobbyNext]_allVars => OnlyCrossedLinesFail'
  <2> SUFFICES ASSUME IInv, LobbyTypeOK, LInv, KnownOK, OnlyCrossedLinesFail, [LobbyNext]_allVars, fault' = "assert"
               PROVE  OnlyCrossedLinesFail'
    BY DEF OnlyCrossedLinesFail
  <2> DEFINE l == Head(up[mutex])
  <2>1. /\ UNCHANGED <<up, mutex, connections, gameId, hosting, channel>>
        /\ movers \subseteq movers' /\ (strayed => strayed')
        /\ \/ mutex \in movers
           \/ PutOut(mutex, l) \/ NamesGone(l) \/ GameIsOver(l)
           \/ l.type = "HOST" /\ strayed
    <3>1. CASE fault # "none"
      BY <3>1, DeadStays DEF OnlyCrossedLinesFail
    <3>2. CASE fault = "none"
      <4>1. PICK c \in Conn : Handle(c)
        BY <3>2, DiesHandling
      <4>2. mutex = c /\ UNCHANGED <<mutex, connections, gameId, hosting, channel, movers>>
        <5>1. mutex = c /\ (Died \/ Spoken(c, Head(up[c])))
          BY <3>2, <4>1, HandledKinds DEF Executing, Asked, Parted, KickedBy
        <5> QED BY <5>1, DiedFrame DEF Spoken
      <4>3. up' = up /\ (~strayed' => ~strayed)
        BY <4>1, HandleFrame DEF IInv
      <4> QED BY <4>1, <4>2, <4>3, AssertCause
    <3> QED BY <3>1, <3>2
  <2>2. Live' = Live /\ Freed' = Freed
    BY <2>1 DEF Live, Freed
  <2> QED BY <2>1, <2>2 DEF OnlyCrossedLinesFail, PutOut, NamesGone, GameIsOver, ToTable, Naming
<1> QED BY <1>1, <1>2, PlayersInv, KnownInv, PTL DEF LobbySpec

-----------------------------------------------------------------------------
(***************************************************************************)
(* The lobby until somebody's stay in a game is made to end.  Lines under  *)
(* way then find what they were sent for: the game a player talks in is    *)
(* the one it is in, and a game that was listed, or is asked for, is       *)
(* still hosted.                                                           *)
(***************************************************************************)
CalmLine(l, g, H) ==
    /\ l.type \notin Ending
    /\ ToTable(l) => g \in Conn
    /\ l.type = "JOIN" => l.game \in H

CalmWord(c, l, H) == ~Outs(c, l) /\ (l.type = "326" => {g.game : g \in l.games} \subseteq H)

CalmPlayer(c) ==
    /\ \A i \in 1 .. Len(up[c]) : CalmLine(up[c][i], channel[c], Hosts)
    /\ \A i \in 1 .. Len(down[c]) : CalmWord(c, down[c][i], Hosts)
    /\ seen[c] \subseteq Hosts /\ screen[c] # "left"
    /\ gameId[c] # 0 => c \in Live /\ connected[c]

Calm == movers = {} /\ ~strayed /\ fault = "none" /\ \A c \in Conn : CalmPlayer(c)

\* Nobody is gone then, and all that is known of players holds of every player.
LEMMA CalmKnows ==
    ASSUME IInv, LInv, Calm
    PROVE  /\ Freed = {} /\ Steady = Conn /\ ~Astray
           /\ \A x \in Conn : Player(x) /\ Viewing(x) /\ OwnName(x) /\ ~Outing(x) /\ ~Says(x, {"PART"})
<1>1. Freed = {} /\ Steady = Conn
  BY DEF Freed, Steady, Calm, CalmPlayer
<1>2. \A x \in Conn : ~Outing(x) /\ ~Says(x, {"PART"})
  BY DEF Calm, CalmPlayer, CalmLine, CalmWord, Ending, Outing, Says
<1> QED BY <1>1, <1>2 DEF LInv, Calm

\* A player stays calm as long as no calm line under way gives way to another and
\* games go on.
LEMMA CalmKept ==
    ASSUME NEW x \in Conn, CalmPlayer(x), Hosts \subseteq Hosts', Live \subseteq Live',
           gameId'[x] = gameId[x], connected'[x] = connected[x],
           screen'[x] # "left", seen'[x] \subseteq Hosts',
           channel'[x] = channel[x] \/ Len(up'[x]) = 0,
           \A i \in 1 .. Len(up'[x]) :
              \/ \E j \in 1 .. Len(up[x]) : up'[x][i] = up[x][j]
              \/ CalmLine(up'[x][i], channel[x], Hosts),
           \A i \in 1 .. Len(down'[x]) :
              \/ \E j \in 1 .. Len(down[x]) : down'[x][i] = down[x][j]
              \/ CalmWord(x, down'[x][i], Hosts)
    PROVE  CalmPlayer(x)'
<1>1. \A l, g : CalmLine(l, g, Hosts) => CalmLine(l, g, Hosts')
  BY DEF CalmLine
<1>2. \A l : CalmWord(x, l, Hosts) => CalmWord(x, l, Hosts')
  BY DEF CalmWord
<1>3. ASSUME NEW i \in 1 .. Len(up'[x]) PROVE CalmLine(up'[x][i], channel'[x], Hosts')
  <2>1. CalmLine(up'[x][i], channel[x], Hosts)
    BY <1>3 DEF CalmPlayer
  <2>2. channel'[x] = channel[x]
    BY <1>3
  <2> QED BY <1>1, <2>1, <2>2
<1>4. ASSUME NEW i \in 1 .. Len(down'[x]) PROVE CalmWord(x, down'[x][i], Hosts')
  BY <1>2, <1>4 DEF CalmPlayer
<1> QED BY <1>3, <1>4 DEF CalmPlayer

\* What a calm player says finds what it names.
LEMMA SaysCalmly ==
    ASSUME IInv, LobbyTypeOK, LInv, Calm, NEW c \in Conn, NEW l \in Lines,
           Fits(c, l), l.type \notin Ending
    PROVE  CalmLine(l, channel[c], Hosts) /\ Shows(c, l) # "left"
<1>1. seen[c] \subseteq Hosts
  BY DEF Calm, CalmPlayer
<1>2. Shows(c, l) # "left"
  BY FitsFields DEF Shows, Ending
<1>3. l.type = "JOIN" => l.game \in Hosts
  BY <1>1, FitsFields, BareKinds DEF ToTable, Naming
<1>4. ASSUME ToTable(l) PROVE channel[c] \in Conn
  <2>1. screen[c] = "game"
    BY <1>4, FitsFields, BareKinds DEF ToTable, Naming, TalkTypes
  <2> QED BY <2>1, CalmKnows DEF Player, Staying, MayPlay, Viewing
<1> QED BY <1>2, <1>3, <1>4 DEF CalmLine

\* The steps of the players keep the lobby calm, but for those that end a stay.
LEMMA CalmPlays ==
    ASSUME IInv, LobbyTypeOK, LInv, Calm, NEW c \in Conn, Play(c), ~ended'
    PROVE  Calm'
<1>1. \A x \in Conn : CalmPlayer(x) /\ seen[x] \subseteq Hosts /\ screen[x] # "left"
  BY DEF Calm, CalmPlayer
<1>2. ASSUME NEW x \in Conn, UNCHANGED vars, up'[x] = up[x], down'[x] = down[x],
             seen'[x] = seen[x], screen'[x] = screen[x]
      PROVE  CalmPlayer(x)'
  <2>1. CalmPlayer(x)
    BY <1>1
  <2> QED BY <1>2, <2>1 DEF CalmPlayer, vars, connVars, gameVars, Hosts, Live
<1>3. CASE Login(c)
  <2>1. /\ connections' = Append(connections, c) /\ gameId' = [gameId EXCEPT ![c] = nextGameId]
        /\ connected' = [connected EXCEPT ![c] = TRUE]
        /\ UNCHANGED <<hosting, channel, movers, fault, strayed, down, seen>>
        /\ screen' = [screen EXCEPT ![c] = "lobby"]
        /\ up' = [up EXCEPT ![c] = <<Line("NICK", c, NoName)>>]
    BY <1>3 DEF Login, Accept, gameVars
  <2>2. Hosts' = Hosts /\ Live' = Live \cup {c}
    BY <2>1, AppendProperties DEF Hosts, Live, IInv, StateOK
  <2>3. ASSUME NEW x \in Conn \ {c} PROVE CalmPlayer(x)'
    <3>1. up'[x] = up[x] /\ screen'[x] = screen[x] /\ gameId'[x] = gameId[x] /\ connected'[x] = connected[x]
      BY <2>1 DEF IInv, StateOK, LobbyTypeOK
    <3>2. CalmPlayer(x)
      BY <1>1
    <3> QED BY <2>1, <2>2, <3>1, <3>2 DEF CalmPlayer
  <2>4. CalmPlayer(c)'
    <3>1. up'[c] = <<Line("NICK", c, NoName)>> /\ screen'[c] = "lobby" /\ connected'[c]
      BY <2>1 DEF IInv, StateOK, LobbyTypeOK
    <3>2. Len(up'[c]) = 1 /\ up'[c][1] = Line("NICK", c, NoName)
      BY <3>1
    <3>3. CalmLine(Line("NICK", c, NoName), channel[c], Hosts)
      BY DEF CalmLine, Line, Ending, ToTable
    <3>4. \A i \in 1 .. Len(up'[c]) : CalmLine(up'[c][i], channel[c], Hosts)
      BY <3>2, <3>3
    <3>5. CalmPlayer(c)
      BY <1>1
    <3> QED BY <2>1, <2>2, <3>1, <3>4, <3>5 DEF CalmPlayer
  <2> QED BY <2>1, <2>3, <2>4 DEF Calm
<1>4. CASE Say(c)
  <2>1. PICK l \in Lines :
           /\ Fits(c, l)
           /\ up' = [up EXCEPT ![c] = Append(@, l)]
           /\ screen' = [screen EXCEPT ![c] = Shows(c, l)]
           /\ ended' = (ended \/ l.type \in Ending)
    BY <1>4 DEF Say
  <2>2. UNCHANGED vars /\ UNCHANGED <<down, seen, strayed>>
    BY <1>4 DEF Say
  <2>3. CalmLine(l, channel[c], Hosts) /\ Shows(c, l) # "left" /\ l \in UpLine
    BY <2>1, SaysCalmly, FitsType
  <2>4. ASSUME NEW x \in Conn \ {c} PROVE CalmPlayer(x)'
    BY <1>2, <2>1, <2>2 DEF LobbyTypeOK
  <2>5. CalmPlayer(c)'
    <3>1. up[c] \in Seq(UpLine) /\ up'[c] = Append(up[c], l) /\ screen'[c] = Shows(c, l)
      BY <2>1 DEF LobbyTypeOK
    <3>2. \A i \in 1 .. Len(up'[c]) : \/ i \in 1 .. Len(up[c]) /\ up'[c][i] = up[c][i]
                                      \/ up'[c][i] = l
      BY <2>3, <3>1, AppendFacts
    <3>3. CalmPlayer(c)
      BY <1>1
    <3>4. UNCHANGED <<connections, gameId, connected, hosting, channel>>
      BY <2>2 DEF vars, connVars, gameVars
    <3> QED BY <2>2, <2>3, <3>1, <3>2, <3>3, <3>4 DEF CalmPlayer, Hosts, Live
  <2> QED BY <2>2, <2>4, <2>5 DEF Calm, vars, gameVars
<1>5. CASE Leave(c)
  BY <1>5 DEF Leave
<1>6. CASE Read(c)
  <2> DEFINE l == Head(down[c])
  <2>1. /\ UNCHANGED vars /\ UNCHANGED <<up, strayed>>
        /\ down[c] # <<>> /\ down' = [down EXCEPT ![c] = Tail(@)]
        /\ seen' = [seen EXCEPT ![c] = IF l.type = "326" THEN {g.game : g \in l.games} ELSE seen[c]]
    BY <1>6 DEF Read
  <2>2. screen'[c] # "left" /\ \A x \in Conn \ {c} : screen'[x] = screen[x]
    BY <1>1, <1>6 DEF Read, LobbyTypeOK
  <2>3. ASSUME NEW x \in Conn \ {c} PROVE CalmPlayer(x)'
    BY <1>2, <2>1, <2>2 DEF LobbyTypeOK
  <2>4. CalmPlayer(c)'
    <3>1. down[c] \in Seq(Msg) /\ down'[c] = Tail(down[c])
      BY <2>1 DEF LobbyTypeOK
    <3> DEFINE w == down[c]
    <3>2. /\ l = w[1] /\ 1 \in 1 .. Len(w) /\ Len(Tail(w)) = Len(w) - 1
          /\ \A i \in 1 .. Len(w) - 1 : i + 1 \in 1 .. Len(w) /\ Tail(w)[i] = w[i + 1]
      <4>1. w \in Seq(Msg) /\ w # <<>> /\ l = Head(w)
        BY <2>1, <3>1
      <4> HIDE DEF w, l
      <4>2. /\ Head(w) = w[1] /\ Len(w) \in Nat \ {0} /\ Len(Tail(w)) = Len(w) - 1
            /\ \A i \in 1 .. Len(w) - 1 : Tail(w)[i] = w[i + 1]
        BY <4>1, TailFacts
      <4> QED BY <4>1, <4>2
    <3>3. CalmPlayer(c)
      BY <1>1
    <3>4. CalmWord(c, l, Hosts)
      BY <3>2, <3>3 DEF CalmPlayer
    <3>5. \A i \in 1 .. Len(down'[c]) : i + 1 \in 1 .. Len(down[c]) /\ down'[c][i] = down[c][i + 1]
      BY <3>1, <3>2
    <3> HIDE DEF l
    <3>6. seen'[c] \subseteq Hosts
      <4>1. seen'[c] = IF l.type = "326" THEN {g.game : g \in l.games} ELSE seen[c]
        BY <2>1 DEF LobbyTypeOK
      <4> QED BY <1>1, <3>4, <4>1 DEF CalmWord
    <3>7. Hosts' = Hosts /\ Live' = Live /\ UNCHANGED <<gameId, connected, channel>>
      BY <2>1 DEF vars, connVars, gameVars, Hosts, Live
    <3> QED BY <2>1, <2>2, <3>3, <3>5, <3>6, <3>7, CalmKept
  <2> HIDE DEF l
  <2> QED BY <2>1, <2>3, <2>4 DEF Calm, vars, gameVars
<1>7. CASE Stall(c)
  <2>1. UNCHANGED vars /\ UNCHANGED <<up, down, screen, seen, strayed>>
    BY <1>7 DEF Stall, playerVars
  <2> QED BY <1>2, <2>1 DEF Calm, vars, gameVars
<1> QED BY <1>3, <1>4, <1>5, <1>6, <1>7 DEF Play

\* No assertion fails over a line of a calm player, and no bad pointer is followed.
LEMMA CalmGoes ==
    ASSUME IInv, IInv', LobbyTypeOK, LInv, KnownOK, Calm, NEW c \in Conn, Handle(c)
    PROVE  fault' = "none"
<1> DEFINE l == Head(up[c])
<1>1. /\ Dispatch(c, l) /\ l \in UpLine /\ l = up[c][1] /\ 1 \in 1 .. Len(up[c]) /\ Command(c)
      /\ c \in Live /\ fault = "none"
  BY HandleFrame, HandledKinds DEF IInv, Executing
<1>2. CalmLine(l, channel[c], Hosts) /\ movers = {} /\ ~strayed
  BY <1>1 DEF Calm, CalmPlayer
<1>3. fault' \notin {"null", "dangling"}
  BY <1>1, <1>2, CommandFault
<1>4. fault' \in {"none", "assert", "null", "dangling"}
  BY DEF IInv, StateOK
<1> SUFFICES ASSUME fault' = "assert" PROVE FALSE
  BY <1>3, <1>4
<1>5. PutOut(c, l) \/ NamesGone(l) \/ GameIsOver(l)
  BY <1>2, AssertCause
<1> HIDE DEF l
<1>6. ~PutOut(c, l)
  BY <1>2, NoConnAssumption DEF PutOut, CalmLine
<1>7. ~NamesGone(l)
  BY CalmKnows DEF NamesGone
<1>8. ~GameIsOver(l)
  <2>1. l.type = "JOIN" => l.game \in Hosts
    BY <1>2 DEF CalmLine
  <2>2. Hosts \subseteq Live
    BY DEF Hosts, IInv, Fresh, Calm, CalmPlayer
  <2> QED BY <2>1, <2>2 DEF GameIsOver, Hosts
<1> QED BY <1>5, <1>6, <1>7, <1>8

\* What is written then ends nobody's stay, and lists games that are hosted.
LEMMA CalmWords ==
    ASSUME IInv, IInv', LobbyTypeOK, LInv, KnownOK, Calm, NEW c \in Conn, Handle(c),
           NEW x \in Conn, NEW i \in 1 .. Len(sent'[x])
    PROVE  CalmWord(x, sent'[x][i], Hosts)
<1> DEFINE l == Head(up[c])
<1>1. /\ Dispatch(c, l) /\ l \in UpLine /\ SentType' /\ l = up[c][1] /\ 1 \in 1 .. Len(up[c])
      /\ LineOK(c, l)
  BY HandleFrame, HandledKinds DEF IInv
<1>2. l.type \notin Ending /\ fault' = "none"
  BY <1>1, CalmGoes DEF Calm, CalmPlayer, CalmLine
<1>3. CASE l.type \in Asks
  <2>1. Asked(c, l.game) /\ nick[c] = c
    BY <1>2, <1>3, HandledKinds, DiedFrame DEF Asks
  <2> HIDE DEF l
  <2>2. Unlisted /\ ~Outs(x, sent'[x][i])
    BY <2>1, EnterLines DEF Asked, IInv
  <2> QED BY <2>2 DEF Unlisted, Lacks, CalmWord
<1>4. CASE l.type \notin Asks
  <2> HIDE DEF l
  <2>1. Mute /\ (l.type # "LIST" => Unlisted)
    BY <1>1, <1>2, <1>4, QuietHandled DEF Ending, IInv
  <2>2. ~Outs(x, sent'[x][i])
    BY <2>1 DEF Mute, Lacks, Outs
  <2>3. ASSUME l.type = "LIST", sent'[x][i].type = "326"
        PROVE  {g.game : g \in sent'[x][i].games} \subseteq Hosts
    <3> DEFINE G == {[game |-> channelName[h], players |-> Len(members[h])] : h \in Hosts \cap Live}
    <3>1. sent' = SendTo(c, Listing(G))
      BY <1>1, <2>3 DEF Dispatch, Ignored, Answered, HandleLIST
    <3>2. \A g \in G : g.game \in Hosts
      BY DEF LInv, OwnName, Hosts
    <3> HIDE DEF G
    <3>3. sent'[x][i] = Listing(G)
      BY <3>1 DEF SendTo
    <3> QED BY <3>2, <3>3 DEF Listing
  <2> QED BY <2>1, <2>2, <2>3 DEF Unlisted, Lacks, CalmWord
<1> QED BY <1>3, <1>4

\* Only a QUIT marks its sender as gone.
LEMMA ConnectedStays ==
    ASSUME NEW c \in Conn, NEW l \in UpLine, Dispatch(c, l), l.type # "QUIT"
    PROVE  connected' = connected
<1>1. CASE l.type \in {"NICK", "LIST", "SETCODEPAGE", "SETLOCALE"} \cup Ignored \cup DOMAIN Answered
  <2>1. \/ HandleNICK(c, l.nick) \/ HandleLIST(c) \/ HandleIgnored(c) \/ HandleFixed(c, Answered[l.type])
        \/ \E v : HandleSETCODEPAGE(c, v) \/ HandleSETLOCALE(c, v)
    BY <1>1 DEF Dispatch, Ignored, Answered
  <2> QED BY <2>1 DEF HandleNICK, HandleLIST, HandleIgnored, HandleFixed, HandleSETCODEPAGE, HandleSETLOCALE, connVars
<1>2. CASE l.type \in {"HOST", "JOIN"}
  BY <1>2 DEF Dispatch, Ignored, Answered, HandleHost, HandleJoin, Run, Die, connVars
<1>3. CASE l.type \in {"GAMEOPT", "PRIVMSG", "PAGE"}
  BY <1>3 DEF Dispatch, Ignored, Answered, HandleGAMEOPTGame, HandleGAMEOPTNick, HandlePRIVMSGGame,
              HandlePRIVMSGNick, HandlePAGEGame, HandlePAGENick, ToGame, ToNick, Run, Die, connVars
<1>4. CASE l.type \in {"STARTG", "TOPIC", "GETCODEPAGE", "GETLOCALE"}
  BY <1>4 DEF Dispatch, Ignored, Answered, HandleSTARTG, HandleTOPIC, HandleGETCODEPAGE, HandleGETLOCALE,
              HandleLookup, Run, Die, connVars
<1>5. CASE l.type \in {"PART", "KICK"}
  BY <1>5 DEF Dispatch, Ignored, Answered, HandlePART, PartHost, PartGuest, HandleKICK, Run, Die, connVars
<1> QED BY <1>1, <1>2, <1>3, <1>4, <1>5 DEF UpLine, SaidType, HostOnly, TalkTypes, Bare

\* Handling a line keeps the lobby calm: who hosts or joins was in no game before.
LEMMA CalmHandled ==
    ASSUME IInv, IInv', LobbyTypeOK, LInv, KnownOK, Calm, NEW c \in Conn, Handle(c)
    PROVE  Calm'
<1> DEFINE l == Head(up[c])
<1>1. /\ Dispatch(c, l) /\ l \in UpLine /\ l = up[c][1] /\ 1 \in 1 .. Len(up[c])
      /\ SentType' /\ UNCHANGED <<screen, seen>>
      /\ \A d \in Conn : Heard(d)
      /\ \A d \in Conn \ {c} : up'[d] = up[d]
  BY HandleFrame DEF IInv
<1>2. fault' = "none" /\ Popped(c) /\ ~Died
  BY CalmGoes, HandleFrame, DiedFrame DEF IInv
<1>3. CalmLine(l, channel[c], Hosts)
  BY <1>1 DEF Calm, CalmPlayer
<1>4. /\ connected' = connected /\ gameId' = gameId /\ Live' = Live
  BY <1>1, <1>3, ConnectedStays, HandledFrame DEF CalmLine, Ending
<1>5. \/ l.type \notin Asks /\ Spoken(c, l)
      \/ l.type \in Asks /\ Asked(c, l.game)
  BY <1>2, <1>3, HandledKinds DEF CalmLine, Ending
<1>6. \A x \in Conn : CalmPlayer(x) /\ seen[x] \subseteq Hosts /\ screen[x] # "left"
  BY DEF Calm, CalmPlayer
<1>7. movers = {} /\ ~strayed /\ ~Astray
  BY CalmKnows DEF Calm
<1> HIDE DEF l
<1>8. ASSUME l.type \in Asks, Asked(c, l.game)
      PROVE  channel[c] = NoConn /\ Len(up'[c]) = 0
  <2>1. Says(c, Asks)
    BY <1>1, <1>8 DEF Says
  <2>2. Viewing(c) /\ ~Says(c, {"PART"}) /\ Stream(c)
    BY CalmKnows DEF Player
  <2>3. channel[c] = NoConn
    BY <2>1, <2>2 DEF Viewing
  <2>4. Len(up[c]) \in Nat \ {0} /\ Len(up'[c]) = Len(up[c]) - 1
    BY <1>2, PopFacts
  <2>5. \A j \in 1 .. Len(up[c]) : ~(1 < j)
    BY <1>1, <1>8, <2>2 DEF Stream
  <2>6. Len(up[c]) = 1
    <3> DEFINE k == Len(up[c])
    <3>1. k \in Nat \ {0} /\ \A j \in 1 .. k : ~(1 < j)
      BY <2>4, <2>5
    <3> HIDE DEF k
    <3>2. k \in 1 .. k
      BY <3>1
    <3>3. ~(1 < k)
      BY <3>1, <3>2
    <3>4. k = 1
      BY <3>1, <3>3
    <3> QED BY <3>4 DEF k
  <2> QED BY <2>3, <2>4, <2>6
<1>9. /\ movers' = {} /\ Hosts \subseteq Hosts' /\ ~Astray'
      /\ \A x \in Conn : channel'[x] = channel[x] \/ Len(up'[x]) = 0
  <2>1. CASE Spoken(c, l)
    BY <1>4, <1>7, <2>1 DEF Spoken, Hosts, Astray
  <2>2. CASE l.type \in Asks /\ Asked(c, l.game)
    <3>1. /\ hosting' = [hosting EXCEPT ![l.game] = TRUE]
          /\ channel' = [channel EXCEPT ![c] = l.game]
          /\ movers' = IF channel[c] = NoConn THEN movers ELSE movers \cup {c}
          /\ l.game = c \/ hosting[l.game]
      BY <2>2 DEF Asked, Enter
    <3>2. channel[c] = NoConn /\ Len(up'[c]) = 0
      BY <1>8, <2>2
    <3>3. /\ hosting \in [Conn -> BOOLEAN] /\ channel \in [Conn -> Conn \cup {NoConn}]
          /\ Live \subseteq Conn
      BY LiveType DEF IInv, StateOK
    <3>4. hosting[c] => ~(c \in Live)
      BY <1>7, <3>2, NoConnAssumption DEF Astray
    <3>5. ~Astray'
      <4> SUFFICES ASSUME NEW h \in Live, hosting'[h], channel'[h] # h PROVE FALSE
        BY <1>4 DEF Astray
      <4>1. CASE h = c
        BY <3>1, <3>3, <3>4, <4>1
      <4>2. CASE h # c
        <5>1. hosting[h] /\ channel'[h] = channel[h]
          BY <3>1, <3>3, <4>2
        <5> QED BY <1>7, <5>1 DEF Astray
      <4> QED BY <4>1, <4>2
    <3> QED BY <1>7, <3>1, <3>2, <3>3, <3>5 DEF Hosts
  <2> QED BY <1>5, <2>1, <2>2
<1>10. ~strayed'
  BY <1>7, <1>9 DEF Handle
<1>11. ASSUME NEW x \in Conn PROVE CalmPlayer(x)'
  <2>1. \A i \in 1 .. Len(up'[x]) : \E j \in 1 .. Len(up[x]) : up'[x][i] = up[x][j]
    <3>1. CASE x = c
      BY <1>2, <3>1, PopFacts
    <3>2. CASE x # c
      BY <1>1, <3>2
    <3> QED BY <3>1, <3>2
  <2>2. \A i \in 1 .. Len(down'[x]) :
           \/ \E j \in 1 .. Len(down[x]) : down'[x][i] = down[x][j]
           \/ CalmWord(x, down'[x][i], Hosts)
    <3>1. sent'[x] \in Seq(Msg) /\ down'[x] = down[x] \o sent'[x]
      BY <1>1, <1>6 DEF Heard, SentType
    <3>2. \A i \in 1 .. Len(down'[x]) :
             \/ i \in 1 .. Len(down[x]) /\ down'[x][i] = down[x][i]
             \/ i - Len(down[x]) \in 1 .. Len(sent'[x]) /\ down'[x][i] = sent'[x][i - Len(down[x])]
      BY <3>1, HeardFacts
    <3> QED BY <3>2, CalmWords
  <2>3. gameId'[x] = gameId[x] /\ connected'[x] = connected[x] /\ Live \subseteq Live'
    BY <1>4
  <2>4. screen'[x] # "left" /\ seen'[x] \subseteq Hosts'
    BY <1>1, <1>6, <1>9
  <2> QED BY <1>6, <1>9, <2>1, <2>2, <2>3, <2>4, CalmKept
<1> QED BY <1>2, <1>9, <1>10, <1>11 DEF Calm

\* So do the other steps of the server; none of its threads ends.
LEMMA CalmServes ==
    ASSUME IInv, IInv', LobbyTypeOK, LInv, KnownOK, Calm, NEW c \in Conn, Serve(c)
    PROVE  Calm'
<1>1. CalmPlayer(c)
  BY DEF Calm
<1>2. ~Fail(c)
  BY <1>1 DEF Fail, CalmPlayer
<1>3. ~Remove(c)
  BY <1>1 DEF Remove, Teardown, CalmPlayer, IInv, Ordered
<1>4. CASE Chunk(c) \/ Unlock(c)
  <2>1. /\ UNCHANGED <<connections, gameId, connected, hosting, channel, movers, fault>>
        /\ UNCHANGED <<up, down, screen, seen, strayed>>
    BY <1>4 DEF Chunk, RecvChunk, Unlock, EndChunk, connVars, gameVars, lobbyVars, playerVars
  <2> QED BY <2>1 DEF Calm, CalmPlayer, Hosts, Live
<1> QED BY <1>2, <1>3, <1>4, CalmHandled DEF Serve

\* Until a PART, a KICK or a QUIT is sent or a player leaves, the server does not
\* fail: hosting, joining, setting options, talking and starting are safe in any
\* order, for any number of players, games and lines under way.
THEOREM CalmCorrect == LobbySpec => []CalmLobbyRuns
<1>1. LobbyInit => (ended \/ Calm)
  <2> SUFFICES ASSUME LobbyInit PROVE Calm
    OBVIOUS
  <2>1. /\ up = [c \in Conn |-> <<>>] /\ down = [c \in Conn |-> <<>>] /\ seen = [c \in Conn |-> {}]
        /\ screen = [c \in Conn |-> "off"] /\ strayed = FALSE
        /\ gameId = [c \in Conn |-> 0] /\ movers = {} /\ fault = "none"
    BY DEF LobbyInit, Init
  <2>2. \A c \in Conn : Len(up[c]) = 0 /\ Len(down[c]) = 0
    BY <2>1
  <2> QED BY <2>1, <2>2 DEF Calm, CalmPlayer
<1>2. /\ IInv /\ IInv' /\ LobbyTypeOK /\ LInv /\ KnownOK /\ (ended \/ Calm) /\ [LobbyNext]_allVars
      => (ended \/ Calm)'
  <2> SUFFICES ASSUME IInv, IInv', LobbyTypeOK, LInv, KnownOK, ended \/ Calm, [LobbyNext]_allVars, ~ended'
               PROVE  Calm'
    OBVIOUS
  <2>1. CASE LobbyNext
    <3>1. PICK c \in Conn : Play(c) \/ Serve(c)
      BY <2>1 DEF LobbyNext
    <3>2. ~ended
      <4>1. Play(c) => (ended => ended')
        BY DEF Play, Login, Say, Leave, Read, Stall
      <4>2. Serve(c) => ended' = ended
        BY DEF Serve, Chunk, Handle, Unlock, Fail, Remove, lobbyVars
      <4> QED BY <3>1, <4>1, <4>2
    <3> QED BY <3>1, <3>2, CalmPlays, CalmServes
  <2>2. CASE UNCHANGED allVars
    <3>1. /\ UNCHANGED <<connections, gameId, connected, hosting, channel, movers, fault>>
          /\ UNCHANGED <<up, down, screen, seen, strayed, ended>>
      BY <2>2 DEF allVars, vars, connVars, gameVars, lobbyVars, playerVars
    <3> QED BY <3>1 DEF Calm, CalmPlayer, Hosts, Live
  <2> QED BY <2>1, <2>2
<1>3. (ended \/ Calm) => CalmLobbyRuns
  BY DEF CalmLobbyRuns, Calm
<1> QED BY <1>1, <1>2, <1>3, PlayersInv, KnownInv, PTL DEF LobbySpec
=============================================================================
