------------------------------ MODULE WolLobby ------------------------------
(***************************************************************************)
(* The lobby as a whole: the server of WolIrcServer, the games of the      *)
(* players, and the TCP streams between them, which keep order, hold a     *)
(* bounded number of lines and block a full send.                          *)
(*                                                                         *)
(* A player follows the readme's "How to play multiplayer" and the example *)
(* sessions in EmperorHooks/WolIrcServer.cpp: it chooses a nick nobody     *)
(* else has (here the connection itself), and sends only what fits the     *)
(* screen it shows.  The screen changes when a line is read, so lines of   *)
(* two players may cross on the way.  Game.exe is not in the repository:   *)
(* the definitions about it are external.                                  *)
(***************************************************************************)
EXTENDS WolIrcServer

CONSTANTS
    Buffer,    \* lines a stream to a player holds before send blocks
    MaxLines,  \* bound: lines a player sends after its NICK
    Uses,      \* kinds of lines the players use
    Last,      \* bound: kinds of lines that a player sends as its last one
    Talkers,   \* bound: players that send lines of these kinds
    MayLeave,  \* bound: players that may leave without a QUIT
    MayStall   \* players that may stop reading

ASSUME LinesAssumption   == MaxLines \in Nat
ASSUME OwnNickAssumption == Nick = Conn /\ NoName \notin Conn

VARIABLES
    up,      \* per player: lines under way to the server
    down,    \* per player: lines under way to it
    chunk,   \* lines of the received chunk that are not handled yet
    screen,  \* per player: what its game shows
    game,    \* per player: the game it takes part in, as far as it knows
    seen,    \* per player: the games of the last LIST
    spent,   \* per player: lines sent after its NICK
    stalled, \* players that have stopped reading
    ended,   \* history: somebody's stay in a game was made to end
    strayed  \* history: a host has been in no game, or in another's

playerVars == <<screen, game, seen, spent>>
lobbyVars  == <<up, down, chunk, playerVars, stalled, ended, strayed>>
allVars    == <<vars, lobbyVars>>

\* The lines that end a stay in a game.
Ending == {"PART", "KICK", "QUIT"}

LobbyInit ==
    /\ Init
    /\ up = [c \in Conn |-> <<>>] /\ down = [c \in Conn |-> <<>>]
    /\ chunk = 0
    /\ screen = [c \in Conn |-> "off"]
    /\ game = [c \in Conn |-> NoName]
    /\ seen = [c \in Conn |-> {}]
    /\ spent = [c \in Conn |-> 0]
    /\ stalled = {} /\ ended = FALSE /\ strayed = FALSE

-----------------------------------------------------------------------------
(* The players. *)

\* The connection is made and the NICK is sent.
Login(c) ==
    /\ screen[c] = "off"
    /\ Accept(c)
    /\ screen' = [screen EXCEPT ![c] = "lobby"]
    /\ up' = [up EXCEPT ![c] = <<Line("NICK", c, NoName)>>]
    /\ UNCHANGED <<down, chunk, game, seen, spent, stalled, ended, strayed>>

\* Lines that have no effect, or that are answered with fixed text.
Ignored  == {"verchk", "CVERS", "PASS", "apgar", "SERIAL", "SETOPT"}
Answered == [lobcount |-> "610", whereto |-> "605", USER |-> "376", SQUADINFO |-> "439",
             GETINSIDER |-> "399", TIME |-> "391", GETBUDDY |-> "333"]
Bare    == Ignored \cup DOMAIN Answered \cup {"SETCODEPAGE", "SETLOCALE"}

\* Lines that name a player, and those that are said in a game.
Naming(l) == l.type \in {"PRIVMSG", "PAGE", "GETCODEPAGE", "GETLOCALE"} /\ l.nick # NoName
ToTable(l) == l.type = "GAMEOPT" \/ (l.type \in {"PRIVMSG", "PAGE"} /\ l.nick = NoName)

\* The nicks a player may know: of whoever has logged in, gone or not.
Known == {n \in Conn : nick[n] = n}

\* What the lobby lets c send, what a game does, and what both do.
LobbyScreen(c, l) ==
    \/ l = Line("LIST", NoName, NoName)
    \/ l = Line("HOST", NoName, c)
    \/ l = Line("JOIN", NoName, l.game) /\ l.game \in seen[c]
    \/ l = Line("QUIT", NoName, NoName)

GameScreen(c, l) ==
    \/ ToTable(l) /\ l = Line(l.type, NoName, game[c])
    \/ l = Line("GAMEOPT", l.nick, NoName) /\ l.nick \in Known
    \/ l = Line("PART", NoName, game[c])
    \/ /\ game[c] = c
       /\ \/ l.type \in {"STARTG", "TOPIC"} /\ l = Line(l.type, NoName, c)
          \/ l = Line("KICK", l.nick, c) /\ l.nick \in Conn \ {c}

AnyScreen(l) ==
    \/ l.type \in Bare /\ l = Line(l.type, NoName, NoName)
    \/ Naming(l) /\ l.nick \in Known /\ l.game = NoName

\* A line that c may send, and the screen it shows then.
Fits(c, l) ==
    \/ screen[c] = "lobby" /\ LobbyScreen(c, l)
    \/ screen[c] = "game" /\ GameScreen(c, l)
    \/ screen[c] \in {"lobby", "game"} /\ AnyScreen(l)

Shows(c, l) == CASE l.type \in {"HOST", "JOIN"} -> "asking"
                 [] l.type = "PART"             -> "lobby"
                 [] l.type = "QUIT"             -> "left"
                 [] OTHER                       -> screen[c]

Lines == [type : Uses, nick : Name, game : Name]

Say(c) ==
    /\ fault = "none" /\ spent[c] < MaxLines
    /\ screen[c] \in {"lobby", "game"}
    /\ \E l \in Lines :
          /\ Fits(c, l) /\ (l.type \in Last => c \in Talkers)
          /\ up' = [up EXCEPT ![c] = Append(@, l)]
          /\ screen' = [screen EXCEPT ![c] = Shows(c, l)]
          /\ game' = IF Shows(c, l) = "lobby" THEN [game EXCEPT ![c] = NoName] ELSE game
          /\ ended' = (ended \/ l.type \in Ending)
          /\ spent' = [spent EXCEPT ![c] = IF l.type \in Last THEN MaxLines ELSE @ + 1]
    /\ UNCHANGED <<vars, down, chunk, seen, stalled, strayed>>

\* The game of c is closed, or the network fails: what it sent may still arrive.
Leave(c) ==
    /\ fault = "none" /\ c \in MayLeave
    /\ screen[c] \notin {"off", "left"}
    /\ screen' = [screen EXCEPT ![c] = "left"]
    /\ down' = [down EXCEPT ![c] = <<>>]
    /\ ended' = TRUE
    /\ UNCHANGED <<vars, up, chunk, game, seen, spent, stalled, strayed>>

\* What a line tells c about its own stay: it is in, it is out, or nothing.
Enters(c, l) == l.type = "JOINGAME" /\ l.nick = c
Outs(c, l)   == l.type \in {"PART", "KICK"} /\ l.nick = c

Read(c) ==
    /\ fault = "none"
    /\ c \notin stalled /\ down[c] # <<>>
    /\ down' = [down EXCEPT ![c] = Tail(@)]
    /\ LET l == Head(down[c])
       IN  /\ screen' = [screen EXCEPT ![c] = IF @ = "left" THEN @
                                              ELSE IF Enters(c, l) THEN "game"
                                              ELSE IF Outs(c, l) /\ @ = "game" THEN "lobby" ELSE @]
           /\ game' = [game EXCEPT ![c] = IF Enters(c, l) THEN l.game
                                          ELSE IF Outs(c, l) THEN NoName ELSE @]
           /\ seen' = [seen EXCEPT ![c] = IF l.type = "326" THEN {g.game : g \in l.games} ELSE @]
    /\ UNCHANGED <<vars, up, chunk, spent, stalled, ended, strayed>>

\* A player's machine hangs, or its game waits for something else.
Stall(c) ==
    /\ fault = "none" /\ c \in MayStall \ stalled
    /\ screen[c] \notin {"off", "left"}
    /\ stalled' = stalled \cup {c}
    /\ UNCHANGED <<vars, up, down, chunk, playerVars, ended, strayed>>

-----------------------------------------------------------------------------
(* The server's threads. *)

\* The lines recv may return before the mutex is taken.  In the
\* mutant the loop over the received bytes stops one short, and the last line is
\* not seen to end.
ReceivedShort(c) == 0 .. Len(up[c]) - 1
Received(c) == 1 .. Len(up[c])

Chunk(c) ==
    /\ RecvChunk(c)
    /\ \E n \in Received(c) : chunk' = n
    /\ UNCHANGED <<up, down, playerVars, stalled, ended, strayed>>

\* What is done with a line.  A look-up of several nicks fails for the one that is
\* missing, so players ask for one at a time, as the example sessions do.
Dispatch(c, l) ==
    \/ l.type \in Ignored         /\ HandleIgnored(c)
    \/ l.type \in DOMAIN Answered /\ HandleFixed(c, Answered[l.type])
    \/ l.type = "SETCODEPAGE"     /\ \E v \in CodePage : HandleSETCODEPAGE(c, v)
    \/ l.type = "SETLOCALE"       /\ \E v \in Locale : HandleSETLOCALE(c, v)
    \/ l.type = "GETCODEPAGE"     /\ HandleGETCODEPAGE(c, {l.nick})
    \/ l.type = "GETLOCALE"       /\ HandleGETLOCALE(c, {l.nick})
    \/ l.type = "NICK"            /\ HandleNICK(c, l.nick)
    \/ l.type = "LIST"            /\ HandleLIST(c)
    \/ l.type = "HOST"            /\ HandleHost(c, l.game)
    \/ l.type = "JOIN"            /\ HandleJoin(c, l.game)
    \/ l.type = "TOPIC"           /\ \E t \in TopicStr : HandleTOPIC(c, l.game, t)
    \/ l.type = "STARTG"          /\ HandleSTARTG(c, l.game)
    \/ l.type = "PART"            /\ HandlePART(c, l.game)
    \/ l.type = "KICK"            /\ HandleKICK(c, l.game, l.nick)
    \/ l.type = "QUIT"            /\ HandleQUIT(c)
    \/ /\ l.nick = NoName
       /\ \/ l.type = "GAMEOPT" /\ HandleGAMEOPTGame(c)
          \/ l.type = "PRIVMSG" /\ HandlePRIVMSGGame(c, l.game)
          \/ l.type = "PAGE"    /\ HandlePAGEGame(c, l.game)
    \/ /\ l.nick # NoName
       /\ \/ l.type = "GAMEOPT" /\ HandleGAMEOPTNick(c, l.nick)
          \/ l.type = "PRIVMSG" /\ HandlePRIVMSGNick(c, l.nick)
          \/ l.type = "PAGE"    /\ HandlePAGENick(c, l.nick)

\* A host that is not in its own game.  Who parts from a game is still listed
\* there; if it hosts next, a KICK or PART of the first game's host cuts it loose
\* from its own game, which goes on without it.
Astray == \E h \in Live : hosting[h] /\ channel[h] # h

\* A line whose handler failed stays at the head of its stream.
Handle(c) ==
    /\ up[c] # <<>> /\ chunk > 0
    /\ Dispatch(c, Head(up[c]))
    /\ \A d \in Conn : screen[d] # "left" => Len(down[d]) + Len(sent'[d]) <= Buffer
    /\ down' = [d \in Conn |-> IF screen[d] = "left" THEN <<>> ELSE down[d] \o sent'[d]]
    /\ IF fault' = "none"
       THEN chunk' = chunk - 1 /\ up' = [up EXCEPT ![c] = Tail(@)]
       ELSE UNCHANGED <<chunk, up>>
    /\ strayed' = (strayed \/ Astray')
    /\ UNCHANGED <<playerVars, stalled, ended>>

Unlock(c) == chunk = 0 /\ EndChunk(c) /\ UNCHANGED lobbyVars

\* recv fails once everything the player sent has been received.
Fail(c) ==
    /\ screen[c] = "left" /\ up[c] = <<>>
    /\ RecvFail(c)
    /\ UNCHANGED lobbyVars

Remove(c) == Teardown(c) /\ UNCHANGED lobbyVars

Serve(c) == Chunk(c) \/ Handle(c) \/ Unlock(c) \/ Fail(c) \/ Remove(c)

Play(c) == Login(c) \/ Say(c) \/ Leave(c) \/ Read(c) \/ Stall(c)

LobbyNext == \E c \in Conn : Play(c) \/ Serve(c)

LobbySpec == LobbyInit /\ [][LobbyNext]_allVars

\* Players that have not stalled read what they are sent, a thread goes on with
\* its chunk, a recv that fails returns, and no thread is passed over for ever by
\* the mutex.
LobbyFairness ==
    \A c \in Conn :
        /\ WF_allVars(Read(c)) /\ WF_allVars(Handle(c)) /\ WF_allVars(Unlock(c))
        /\ SF_allVars(Chunk(c)) /\ WF_allVars(Fail(c)) /\ SF_allVars(Remove(c))

FairLobbySpec == LobbySpec /\ LobbyFairness

-----------------------------------------------------------------------------
(* Properties. *)

\* Until somebody parts, kicks or leaves, nothing players do in any order makes
\* the server fail: hosting, joining, setting options and starting are safe,
\* which is all the readme's "How to play multiplayer" asks for.
CalmLobbyRuns == fault # "none" => ended

\* After that it may fail of an assertion only over a line that crossed an ending:
\* something said in a game by a player that has been put out of it meanwhile, a
\* line that names a player that is gone, or a JOIN of a game that is.  Never over
\* a host's own KICK, STARTG or TOPIC, a PART, or a HOST, however they cross with
\* others.  Excepted are the lines of a player that left or changed game by itself,
\* which hears twice that it has entered a game when it enters one again, and the
\* HOST of a player that a stray host has kicked from a game it was not in.
PutOut(c, l)  == ToTable(l) /\ channel[c] = NoConn
NamesGone(l)  == Naming(l) /\ l.nick \in Freed
GameIsOver(l) == l.type = "JOIN" /\ ~(l.game \in Live /\ hosting[l.game])

OnlyCrossedLinesFail ==
    fault = "assert" =>
        LET l == Head(up[mutex])
        IN  \/ mutex \in movers
            \/ PutOut(mutex, l) \/ NamesGone(l) \/ GameIsOver(l)
            \/ l.type = "HOST" /\ strayed

\* When nothing is under way, what a player's game shows is what the server has:
\* the game it is in, or none, however kicks, parting hosts and joins crossed, and
\* it does not wait for an answer.  Excepted are a player whose host's connection
\* was torn down, which is not told ("TODO: notifiy them?"), one that left by
\* itself, which stays listed and when it comes back hears everything twice, and
\* everyone once a host has strayed: what it says goes to the game it is in and
\* concerns the one it hosts.
ViewsMeet ==
    \A c \in Live \ movers :
        (fault = "none" /\ mutex = NoConn /\ up[c] = <<>> /\ down[c] = <<>> /\ ~strayed) =>
            /\ screen[c] # "asking"
            /\ screen[c] = "lobby" => channel[c] = NoConn
            /\ screen[c] = "game" => channel[c] = game[c] \/ game[c] \notin Live

\* What a player sends is handled in the end, as long as everyone reads: one
\* player that stalls may keep the mutex taken and stop all the others.
LinesAreHandled ==
    \A c \in Conn : up[c] # <<>> ~> (up[c] = <<>> \/ fault # "none" \/ stalled # {})

\* The thread of a player that left comes to its end and its connection is
\* removed, however the other threads take the mutex before it, as long as
\* everyone reads.
LeaversAreRemoved ==
    \A c \in Conn :
        (c \in Live /\ screen[c] = "left") ~> (c \notin Live \/ fault # "none" \/ stalled # {})
=============================================================================
