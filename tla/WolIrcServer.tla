---------------------------- MODULE WolIrcServer ----------------------------
(***************************************************************************)
(* The lobby server of EmperorHooks/WolIrcServer.cpp: one thread per TCP   *)
(* connection, one mutex (connectionsMutex) held while a received chunk of *)
(* lines is handled, and Connection objects that point at each other.      *)
(*                                                                         *)
(* Strings are abstract: a nick, a game name or a topic is a value, "" is  *)
(* NoName or NoTopic, "#" + name is the name.  Payloads are left out.      *)
(* A connection is a value of Conn used for one accept at most, so that a  *)
(* pointer to a destroyed Connection can be told from a live one.          *)
(***************************************************************************)
EXTENDS PointerVectors

CONSTANTS
    Conn,        \* connections that may be accepted, in some order
    Nick,        \* nicks the clients may choose
    Topic,       \* topics the hosts may set
    CodePage,    \* values of SETCODEPAGE
    Locale,      \* values of SETLOCALE
    NoConn,      \* nullptr
    NoName,      \* the empty nick or game name
    NoTopic,     \* the empty topic
    MaxMembers   \* bound: entries of one hostChannelMembers vector

ASSUME NoConnAssumption == NoConn \notin Conn
ASSUME BoundAssumption  == MaxMembers \in Nat
ASSUME ValueAssumption  == 0 \in CodePage /\ 0 \in Locale

Name     == Nick \cup {NoName}
TopicStr == Topic \cup {NoTopic}

VARIABLES
    connections,  \* the vector of live connections, in order of arrival
    gameId,       \* per connection; 0 before the connection is accepted
    nextGameId,
    connected,    \* cleared by QUIT or a failed recv
    nick, codepage, locale,
    hosting, channelName, topic,   \* hostChannelName, hostChannelTopic
    members,      \* hostChannelMembers: pointers, duplicates possible
    channel,      \* connectedToChannel
    mutex,        \* the thread that holds connectionsMutex, or NoConn
    fault,        \* why the process died: "none" while it runs
    sent,         \* what the last handler wrote on each socket, in order
    movers        \* history: who left or changed game other than by being
                  \* kicked, by its host leaving, or by hosting and parting

connVars == <<connections, gameId, nextGameId, connected>>
userVars == <<nick, codepage, locale>>
gameVars == <<hosting, channelName, topic, members, channel, movers>>
vars     == <<connVars, userVars, gameVars, mutex, fault, sent>>

-----------------------------------------------------------------------------
(* Connections and lines. *)

\* The first entry of s that is in S, or NoConn: the search loops.
FirstIn(s, S) == IF Positions(s, S) = {} THEN NoConn ELSE Select(s, S)[1]

Live  == Range(connections)
Freed == {c \in Conn : gameId[c] # 0 /\ c \notin Live}

\* connectedToChannel after it is set to nullptr for the connections in S, and
\* its mutant that forgets to.
LooseNone(S) == channel
Loose(S) == [d \in Conn |-> IF d \in S THEN NoConn ELSE channel[d]]

Named(n)  == {c \in Conn : nick[c] = n}

\* The hosts, and the mutant of LIST that does not ask for them.
HostsAll  == Conn
Hosts     == {c \in Conn : hosting[c]}
Game(n)   == {c \in Conn : hosting[c] /\ channelName[c] = n}
MembersOf(h) == IF h = NoConn THEN <<>> ELSE members[h]
GameName(h)  == IF h = NoConn THEN NoName ELSE channelName[h]

\* A line the server writes: its command or numeric, the nick and the game
\* it names ("" when it names none).
Line(type, n, g) == [type |-> type, nick |-> n, game |-> g]
Reply(code)      == Line(code, NoName, NoName)

Copies(m, n) == [i \in 1 .. n |-> m]
NoSend       == [d \in Conn |-> <<>>]
SendTo(c, m) == [d \in Conn |-> IF d = c THEN <<m>> ELSE <<>>]

\* One copy of m for each entry of the vector s.
Broadcast(s, m) == [d \in Conn |-> Copies(m, Occurrences(s, d))]

\* The same, but not to c itself.
Relay(s, c, m) ==
    [d \in Conn |-> IF d = c THEN <<>> ELSE Copies(m, Occurrences(s, d))]

-----------------------------------------------------------------------------
Init ==
    /\ connections = <<>>
    /\ gameId = [c \in Conn |-> 0]
    /\ nextGameId = 1
    /\ connected = [c \in Conn |-> FALSE]
    /\ nick = [c \in Conn |-> NoName]
    /\ codepage = [c \in Conn |-> 0]
    /\ locale = [c \in Conn |-> 0]
    /\ hosting = [c \in Conn |-> FALSE]
    /\ channelName = [c \in Conn |-> NoName]
    /\ topic = [c \in Conn |-> NoTopic]
    /\ members = [c \in Conn |-> <<>>]
    /\ channel = [c \in Conn |-> NoConn]
    /\ mutex = NoConn
    /\ fault = "none"
    /\ sent = NoSend
    /\ movers = {}

(* Threads. *)

\* run: the accept loop appends a new Connection under the mutex.
Accept(c) ==
    /\ fault = "none" /\ mutex = NoConn
    /\ gameId[c] = 0
    /\ connections' = Append(connections, c)
    /\ gameId' = [gameId EXCEPT ![c] = nextGameId]
    /\ nextGameId' = nextGameId + 1
    /\ connected' = [connected EXCEPT ![c] = TRUE]
    /\ sent' = NoSend
    /\ UNCHANGED <<userVars, gameVars, mutex, fault>>

\* clientLoop: recv returned data and the thread took the mutex.
RecvChunk(c) ==
    /\ fault = "none" /\ mutex = NoConn
    /\ c \in Live /\ connected[c]
    /\ mutex' = c
    /\ sent' = NoSend
    /\ UNCHANGED <<connVars, userVars, gameVars, fault>>

\* clientLoop: the last line of the chunk is handled, the mutex is released.
EndChunk(c) ==
    /\ fault = "none" /\ mutex = c
    /\ mutex' = NoConn
    /\ sent' = NoSend
    /\ UNCHANGED <<connVars, userVars, gameVars, fault>>

\* clientLoop: recv failed or the peer closed; connected is cleared before
\* the mutex is taken, whatever another thread is doing.
RecvFail(c) ==
    /\ fault = "none" /\ mutex # c
    /\ c \in Live /\ connected[c]
    /\ connected' = [connected EXCEPT ![c] = FALSE]
    /\ sent' = NoSend
    /\ UNCHANGED <<connections, gameId, nextGameId, userVars, gameVars, mutex, fault>>

\* clientLoop after its loop: remove the connection from every member vector,
\* cut those connected to its game loose, destroy it.
Teardown(c) ==
    /\ fault = "none" /\ mutex = NoConn
    /\ c \in Live /\ ~connected[c]
    /\ members' = [h \in Conn |->
                     IF h \in Live THEN EraseSkipping(members[h], c) ELSE members[h]]
    /\ channel' = Loose({d \in Live : channel[d] = c})
    /\ connections' = EraseSkipping(connections, c)
    /\ sent' = NoSend
    /\ UNCHANGED <<gameId, nextGameId, connected, userVars, hosting, channelName,
                   topic, movers, mutex, fault>>

-----------------------------------------------------------------------------
(* Handlers.  Each runs on the thread that holds the mutex, even after a   *)
(* QUIT earlier in the same chunk.  A failed assertion aborts the process; *)
(* following a null or dangling pointer ends it too.                       *)

Executing(c) == fault = "none" /\ mutex = c

Die(why) ==
    /\ fault' = why
    /\ sent' = NoSend
    /\ UNCHANGED <<connVars, userVars, gameVars, mutex>>

\* asserted: what release_assert checks.  touched: the pointers the handler
\* follows.  effect: what it does when all of them are good.
Run(asserted, touched, effect) ==
    \/ ~asserted /\ Die("assert")
    \/ asserted /\ NoConn \in touched /\ Die("null")
    \/ asserted /\ touched \cap Freed # {} /\ Die("dangling")
    \/ asserted /\ touched \subseteq Live /\ fault' = fault /\ mutex' = mutex /\ effect

\* verchk, CVERS, PASS, apgar, SERIAL and SETOPT do nothing.
HandleIgnored(c) ==
    /\ Executing(c)
    /\ sent' = NoSend
    /\ UNCHANGED <<connVars, userVars, gameVars, mutex, fault>>

\* lobcount, whereto, USER, SQUADINFO, GETINSIDER, TIME and GETBUDDY answer
\* with fixed text.
FixedReply == {"610", "605", "376", "439", "399", "391", "333"}

HandleFixed(c, code) ==
    /\ Executing(c)
    /\ sent' = SendTo(c, Reply(code))
    /\ UNCHANGED <<connVars, userVars, gameVars, mutex, fault>>

\* An unknown command, or one with a number or a form of arguments that its
\* handler asserts against.
HandleBadLine(c) == Executing(c) /\ Die("assert")

HandleQUIT(c) ==
    /\ Executing(c)
    /\ connected' = [connected EXCEPT ![c] = FALSE]
    /\ sent' = SendTo(c, Reply("607"))
    /\ UNCHANGED <<connections, gameId, nextGameId, userVars, gameVars, mutex, fault>>

HandleNICK(c, n) ==
    /\ Executing(c)
    /\ nick' = [nick EXCEPT ![c] = n]
    /\ sent' = NoSend
    /\ UNCHANGED <<connVars, codepage, locale, gameVars, mutex, fault>>

HandleSETCODEPAGE(c, v) ==
    /\ Executing(c)
    /\ codepage' = [codepage EXCEPT ![c] = v]
    /\ sent' = SendTo(c, Reply("329"))
    /\ UNCHANGED <<connVars, nick, locale, gameVars, mutex, fault>>

HandleSETLOCALE(c, v) ==
    /\ Executing(c)
    /\ locale' = [locale EXCEPT ![c] = v]
    /\ sent' = SendTo(c, Reply("310"))
    /\ UNCHANGED <<connVars, nick, codepage, gameVars, mutex, fault>>

\* GETCODEPAGE and GETLOCALE look each nick up among all connections and take
\* the first that has it.
Answer(code, values) == [type |-> code, values |-> values]

Lookup(ns, field) == [n \in ns |-> field[FirstIn(connections, Named(n))]]

HandleLookup(c, code, ns, field) ==
    /\ Executing(c)
    /\ Run(\A n \in ns : FirstIn(connections, Named(n)) # NoConn,
           {},
           /\ sent' = SendTo(c, Answer(code, Lookup(ns, field)))
           /\ UNCHANGED <<connVars, userVars, gameVars>>)

HandleGETCODEPAGE(c, ns) == HandleLookup(c, "328", ns, codepage)
HandleGETLOCALE(c, ns)   == HandleLookup(c, "309", ns, locale)

\* LIST: every game with the number of entries in its member vector.
Listing(games) == [type |-> "326", games |-> games]

HandleLIST(c) ==
    /\ Executing(c)
    /\ sent' = SendTo(c, Listing({[game |-> channelName[h], players |-> Len(members[h])]
                                    : h \in Hosts \cap Live}))
    /\ UNCHANGED <<connVars, userVars, gameVars, mutex, fault>>

-----------------------------------------------------------------------------
(* Handlers that concern games. *)

Roster(g, t, names) ==
    [type |-> "353", game |-> g, topic |-> t, names |-> names]

Nicks(s) == [i \in DOMAIN s |-> nick[s[i]]]

\* RPL_NAMREPLY lists the entries from the last to the first.
LastFirst(s) == [i \in DOMAIN s |-> nick[s[Len(s) + 1 - i]]]

\* The tail both forms of JOINGAME share.  c enters the game of h, named g:
\* everyone there is told, c gets the topic and the names, and c and each
\* other entry get a PAGE about one another.
Enter(c, h, g) ==
    LET roster == Append(members[h], c)
        others == Select(roster, Conn \ {c})
        pages  == [i \in DOMAIN others |-> Line("PAGE", nick[others[i]], NoName)]
    IN  /\ members' = [members EXCEPT ![h] = roster]
        /\ channel' = [channel EXCEPT ![c] = h]
        /\ movers'  = IF channel[c] = NoConn THEN movers ELSE movers \cup {c}
        /\ sent' = [d \in Conn |->
              Copies(Line("JOINGAME", nick[c], g), Occurrences(roster, d))
              \o IF d = c THEN <<Roster(g, topic[h], LastFirst(roster))>> \o pages
                 ELSE Copies(Line("PAGE", nick[c], g), Occurrences(roster, d))]

\* JOINGAME with 9 tokens: c hosts a game named after its nick.
HandleHost(c, n) ==
    /\ Executing(c)
    /\ Len(members[c]) < MaxMembers
    /\ Run(~hosting[c] /\ n = nick[c],
           Range(members[c]),
           /\ hosting' = [hosting EXCEPT ![c] = TRUE]
           /\ channelName' = [channelName EXCEPT ![c] = n]
           /\ Enter(c, c, n)
           /\ UNCHANGED <<connVars, userVars, topic>>)

\* JOINGAME with 3 tokens: c joins the first game of that name.
HandleJoin(c, n) ==
    /\ Executing(c)
    /\ LET h == FirstIn(connections, Game(n))
       IN  /\ Len(MembersOf(h)) < MaxMembers
           /\ Run(h # NoConn,
                  Range(MembersOf(h)),
                  /\ Enter(c, h, n)
                  /\ UNCHANGED <<connVars, userVars, hosting, channelName, topic>>)

HandleTOPIC(c, n, t) ==
    /\ Executing(c)
    /\ Run(hosting[c] /\ n = channelName[c],
           {},
           /\ topic' = [topic EXCEPT ![c] = t]
           /\ sent' = NoSend
           /\ UNCHANGED <<connVars, userVars, hosting, channelName, members, channel, movers>>)

\* GAMEOPT #...: the name is not looked at, the sender's game is used.
HandleGAMEOPTGame(c) ==
    /\ Executing(c)
    /\ LET roster == MembersOf(channel[c])
       IN  Run(channel[c] # NoConn,
               {channel[c]} \cup (Range(roster) \ {c}),
               /\ sent' = Relay(roster, c, Line("GAMEOPT", nick[c], GameName(channel[c])))
               /\ UNCHANGED <<connVars, userVars, gameVars>>)

\* GAMEOPT nick: to the first member with that nick, if there is one.
HandleGAMEOPTNick(c, n) ==
    /\ Executing(c)
    /\ LET roster == MembersOf(channel[c])
       IN  Run(channel[c] # NoConn,
               {channel[c]} \cup Scanned(roster, Named(n)),
               /\ sent' = IF Positions(roster, Named(n)) = {} THEN NoSend
                          ELSE SendTo(FirstIn(roster, Named(n)),
                                      Line("GAMEOPT", nick[c], n))
               /\ UNCHANGED <<connVars, userVars, gameVars>>)

Start(n, players, id) ==
    [type |-> "STARTG", nick |-> n, players |-> players, gameId |-> id]

HandleSTARTG(c, n) ==
    /\ Executing(c)
    /\ Run(hosting[c] /\ n = channelName[c],
           Range(members[c]),
           /\ sent' = Broadcast(members[c], Start(nick[c], Nicks(members[c]), gameId[c]))
           /\ UNCHANGED <<connVars, userVars, gameVars>>)

\* PART by a host: its members hear that it left and that they did, are cut
\* loose, and the game is closed.  channel[d]->hostChannelName is followed for
\* each other member d.
PartHost(c, n) ==
    LET roster == members[c]
        gone   == Line("PART", nick[c], GameName(channel[c]))
        own(d) == Line("PART", nick[d], GameName(channel[d]))
    IN  Run(n = GameName(channel[c]),
            {channel[c]} \cup Range(roster) \cup {channel[d] : d \in Range(roster) \ {c}},
            /\ sent' = [d \in Conn |->
                          IF d = c THEN Copies(gone, Occurrences(roster, d))
                          ELSE [i \in 1 .. 2 * Occurrences(roster, d) |->
                                  IF i % 2 = 1 THEN gone ELSE own(d)]]
            /\ channel' = Loose(Range(roster))
            /\ hosting' = [hosting EXCEPT ![c] = FALSE]
            /\ channelName' = [channelName EXCEPT ![c] = NoName]
            /\ topic' = [topic EXCEPT ![c] = NoTopic]
            /\ members' = [members EXCEPT ![c] = <<>>]
            /\ UNCHANGED <<connVars, userVars, movers>>)

\* PART by a guest: the loop that tells the others runs over the guest's own
\* vector, which is empty; it only forgets its game and stays listed there.
PartGuest(c, n) ==
    Run(n = GameName(channel[c]),
        {channel[c]} \cup Range(members[c]),
        /\ sent' = Broadcast(members[c], Line("PART", nick[c], n))
        /\ channel' = Loose({c})
        /\ movers' = movers \cup {c}
        /\ UNCHANGED <<connVars, userVars, hosting, channelName, topic, members>>)

\* With no game PART returns at once.
HandlePART(c, n) ==
    /\ Executing(c)
    /\ \/ /\ channel[c] = NoConn
          /\ sent' = NoSend
          /\ UNCHANGED <<connVars, userVars, gameVars, mutex, fault>>
       \/ /\ channel[c] # NoConn
          /\ IF hosting[c] THEN PartHost(c, n) ELSE PartGuest(c, n)

\* PRIVMSG #... and PAGE #...
ToGame(c, type, n) ==
    LET roster == MembersOf(channel[c])
    IN  Run(channel[c] # NoConn /\ n = GameName(channel[c]),
            {channel[c]} \cup (Range(roster) \ {c}),
            /\ sent' = [Relay(roster, c, Line(type, nick[c], n)) EXCEPT
                          ![c] = IF type = "PAGE" THEN <<Reply("389")>> ELSE <<>>]
            /\ UNCHANGED <<connVars, userVars, gameVars>>)

\* PRIVMSG nick and PAGE nick: to the first connection with that nick.
ToNick(c, type, n) ==
    LET target == FirstIn(connections, Named(n))
        ack    == IF type = "PAGE" THEN <<Reply("389")>> ELSE <<>>
    IN  Run(target # NoConn,
            {},
            /\ sent' = [d \in Conn |->
                          (IF d = target THEN <<Line(type, nick[c], NoName)>> ELSE <<>>)
                          \o (IF d = c THEN ack ELSE <<>>)]
            /\ UNCHANGED <<connVars, userVars, gameVars>>)

HandlePRIVMSGGame(c, n) == Executing(c) /\ ToGame(c, "PRIVMSG", n)
HandlePRIVMSGNick(c, n) == Executing(c) /\ ToNick(c, "PRIVMSG", n)
HandlePAGEGame(c, n)    == Executing(c) /\ ToGame(c, "PAGE", n)
HandlePAGENick(c, n)    == Executing(c) /\ ToNick(c, "PAGE", n)

\* What KICK asserts, and the mutants without its last assertion and with one
\* more, that there is somebody to kick.
KickAnyone(c, n, who)  == hosting[c] /\ n = channelName[c]
KickPresent(c, n, who) == hosting[c] /\ n = channelName[c] /\ Positions(members[c], Named(who)) # {}
KickAllowed(c, n, who) == hosting[c] /\ n = channelName[c] /\ who # nick[c]

\* Whom a KICK by c finds, and the mutant that looks among all connections.
KickedAnywhere(c, who) == {FirstIn(connections, Named(who))} \ {NoConn}
Kicked(c, who) == {FirstIn(members[c], Named(who))} \ {NoConn}

\* KICK: told to the members of the host's own channel, then the first member
\* with that nick is cut loose and erased.
HandleKICK(c, n, who) ==
    /\ Executing(c)
    /\ LET audience == MembersOf(channel[c])
       IN  Run(KickAllowed(c, n, who),
               {channel[c]} \cup Range(audience) \cup Scanned(members[c], Named(who)),
               /\ members' = [members EXCEPT ![c] = DropFirst(@, Named(who))]
               /\ channel' = Loose(Kicked(c, who))
               /\ sent' = Broadcast(audience, Line("KICK", who, n))
               /\ UNCHANGED <<connVars, userVars, hosting, channelName, topic, movers>>)

-----------------------------------------------------------------------------
Command(c) ==
    \/ HandleIgnored(c)
    \/ \E code \in FixedReply : HandleFixed(c, code)
    \/ HandleBadLine(c)
    \/ HandleQUIT(c)
    \/ \E n \in Nick : HandleNICK(c, n)
    \/ \E v \in CodePage : HandleSETCODEPAGE(c, v)
    \/ \E v \in Locale : HandleSETLOCALE(c, v)
    \/ \E ns \in (SUBSET Nick) \ {{}} : HandleGETCODEPAGE(c, ns) \/ HandleGETLOCALE(c, ns)
    \/ HandleLIST(c)
    \/ HandleGAMEOPTGame(c)
    \/ \E n \in Name :
          \/ HandleHost(c, n)
          \/ HandleJoin(c, n)
          \/ \E t \in TopicStr : HandleTOPIC(c, n, t)
          \/ HandleSTARTG(c, n)
          \/ HandlePART(c, n)
          \/ HandlePRIVMSGGame(c, n)
          \/ HandlePAGEGame(c, n)
          \/ \E who \in Nick : HandleKICK(c, n, who)
    \/ \E n \in Nick :
          \/ HandleGAMEOPTNick(c, n)
          \/ HandlePRIVMSGNick(c, n)
          \/ HandlePAGENick(c, n)

Thread(c) ==
    \/ Accept(c) \/ RecvChunk(c) \/ EndChunk(c) \/ RecvFail(c) \/ Teardown(c)

Next == \E c \in Conn : Thread(c) \/ Command(c)

Spec == Init /\ [][Next]_vars

-----------------------------------------------------------------------------
(* Properties. *)

GameLine == [type: {"JOINGAME", "PAGE", "GAMEOPT", "PART", "PRIVMSG", "KICK"},
             nick: Name, game: Name]
ReplyLine == [type: FixedReply \cup {"607", "329", "310", "389"},
              nick: {NoName}, game: {NoName}]
RosterLine == [type: {"353"}, game: Name, topic: TopicStr, names: Seq(Name)]
StartLine  == [type: {"STARTG"}, nick: Name, players: Seq(Name), gameId: Nat]
ListLine   == [type: {"326"}, games: SUBSET [game: Name, players: Nat]]
AnswerLine == {Answer(code, f) : code \in {"328", "309"},
                                 f \in UNION {[ns -> CodePage \cup Locale] : ns \in SUBSET Nick}}
Msg == GameLine \cup ReplyLine \cup RosterLine \cup StartLine \cup ListLine \cup AnswerLine

SentType == sent \in [Conn -> Seq(Msg)]

StateOK ==
    /\ connections \in Seq(Conn)
    /\ gameId \in [Conn -> Nat]
    /\ nextGameId \in Nat \ {0}
    /\ connected \in [Conn -> BOOLEAN]
    /\ nick \in [Conn -> Name]
    /\ codepage \in [Conn -> CodePage]
    /\ locale \in [Conn -> Locale]
    /\ hosting \in [Conn -> BOOLEAN]
    /\ channelName \in [Conn -> Name]
    /\ topic \in [Conn -> TopicStr]
    /\ members \in [Conn -> Seq(Conn)]
    /\ channel \in [Conn -> Conn \cup {NoConn}]
    /\ mutex \in Conn \cup {NoConn}
    /\ fault \in {"none", "assert", "null", "dangling"}
    /\ movers \in SUBSET Conn

\* Every variable keeps to the values the C++ types and the handlers allow: in
\* particular no member vector ever holds a null pointer, and what a handler
\* writes on a socket is a line of the protocol.
TypeOK == StateOK /\ SentType

\* connectedToChannel never dangles and never points at a connection that
\* hosts nothing or whose member vector has forgotten this one: the handlers
\* that follow it (GAMEOPT, PRIVMSG, PAGE, KICK, PART) rely on it unchecked,
\* across KICK, the host's PART and the teardown of either side.
RosterCoversMembers ==
    \A c \in Live : channel[c] # NoConn =>
        /\ channel[c] \in Live
        /\ hosting[channel[c]]
        /\ c \in Range(members[channel[c]])

\* A host is in its own member vector until it parts (nobody can kick it out,
\* not even under its own nick), and a connection that hosts nothing has no
\* members, name or topic left from an earlier game.
HostOwnsGame ==
    \A h \in Conn :
        IF hosting[h] THEN h \in Live => h \in Range(members[h])
        ELSE members[h] = <<>> /\ channelName[h] = NoName /\ topic[h] = NoTopic

\* A member vector lists a connection that is gone or in another game only if
\* that connection left or changed game by itself at some time.  So kicks,
\* hosts that part and threads that end never leave an entry behind.
StaleHasCause ==
    \A h \in Live : \A m \in Range(members[h]) :
        m \in movers \/ (m \in Live /\ channel[m] = h)

\* It lists a connection twice only for the same reason; a double entry is
\* what the erase loop of the teardown cannot remove.
DoubleHasCause ==
    \A h \in Live : \A m \in Conn : m \in movers \/ Once(members[h], m)

\* No null or dangling pointer is followed while nobody has left or changed
\* game by itself, whatever the clients send and in whatever order their
\* threads run.
FaultHasCause == fault \in {"null", "dangling"} => movers # {}

\* The lines d hears in a step, by kind.
Hears(d, types) == \E i \in DOMAIN sent'[d] : sent'[d][i].type \in types

\* A match waits for nobody: a STARTG names as many players as are in the game, and
\* everyone connected to it is told, the host included.  Whoever left or changed
\* game by itself may be named all the same.
StartReachesGame ==
    [][\A d \in Conn : \A i \in DOMAIN sent'[d] :
         sent'[d][i].type = "STARTG" =>
            LET inGame == {e \in Live : channel[e] = mutex} IN
            /\ \A e \in inGame : Hears(e, {"STARTG"})
            /\ \/ \E m \in movers : m \in Range(members[mutex])
               \/ Len(sent'[d][i].players) = Cardinality(inGame)]_vars

\* What is said in a game (options, start, kicks) is heard by no one outside
\* it, but for those who left or changed game by themselves.
GameStaysPrivate ==
    [][\A d \in Conn : Hears(d, {"GAMEOPT", "STARTG", "KICK"}) =>
         d \in movers \/ mutex \in movers \/ channel[d] = channel[mutex]]_vars

\* A step changes the game of a connection only if that connection's own
\* thread runs it, or the host that lists it, or the thread of its host ends.
ChannelChangedByRight ==
    [][\A d \in Conn : channel'[d] # channel[d] =>
         \/ mutex = d
         \/ mutex # NoConn /\ hosting[mutex] /\ d \in Range(members[mutex])
         \/ mutex = NoConn /\ channel[d] \notin Range(connections')]_vars

-----------------------------------------------------------------------------
(* What the comments say and the handlers do not do. *)

\* "other clients receive the same message": when a connection parts, everyone
\* else in its game hears it.
PartIsHeard ==
    [][\A c, d \in Live :
         /\ mutex = c /\ mutex' = c
         /\ channel[c] # NoConn /\ channel'[c] = NoConn
         /\ d # c /\ channel[d] = channel[c]
         => Hears(d, {"PART"})]_vars

\* "remove from any game channels this connection was in": a connection that
\* is gone is in no member vector.
TeardownRemoves == \A h \in Live : Range(members[h]) \subseteq Live
=============================================================================
