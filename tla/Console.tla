------------------------------- MODULE Console -------------------------------
(***************************************************************************)
(* How USSP Admin talks to a control plane: the commands of its user       *)
(* interface share one configuration (server address and token) behind one *)
(* fair read-write lock.  A request keeps the read lock until the server   *)
(* has answered, for which there is no time limit; connect writes the      *)
(* address, fetches a token without the lock and writes it afterwards.     *)
(* The interface hears of a command's end in a step of its own.  What      *)
(* servers make of the requests is module Api's.                           *)
(***************************************************************************)
EXTENDS Sequences

CONSTANTS
    Clicks,   \* commands that can be in flight at a time
    Urls,     \* addresses of control planes
    NoServer  \* no address, and no token of any server's

VARIABLES
    serverUrl, \* ServerConfig::server_url
    token,     \* ServerConfig::token: the server that made it, or NoServer
    connected, \* what the user interface shows
    click,     \* where each command is, and the server it is about; at "yes",
               \* "no" or "auto" it has ended, and the interface shall show that
    waiting,   \* who waits for the lock, in turn
    reading,   \* who keeps the read lock across an await
    takingTurns \* history: all but requests took turns, and no connect failed

consoleVars == <<serverUrl, token, connected, click, waiting, reading, takingTurns>>

Commands == {"connect", "disconnect", "request", "auto", "mount"}
DefaultUrl == CHOOSE url \in Urls : TRUE
Nothing == [at |-> "idle", does |-> "request", to |-> NoServer]

ConsoleTypeOK ==
    /\ serverUrl \in Urls /\ token \in Urls \cup {NoServer}
    /\ connected \in {"no", "yes", "auto"}
    /\ click \in [Clicks -> [at : {"idle", "lock", "token", "store", "answer",
                                   "yes", "no", "auto"},
                             does : Commands, to : Urls \cup {NoServer}]]
    /\ waiting \in Seq(Clicks) /\ reading \subseteq Clicks
    /\ takingTurns \in BOOLEAN

ConsoleInit ==
    /\ serverUrl = DefaultUrl /\ token = NoServer
    /\ connected = "no"
    /\ click = [c \in Clicks |-> Nothing]
    /\ waiting = <<>> /\ reading = {}
    /\ takingTurns = TRUE

-----------------------------------------------------------------------------
ClickAt(c, point) == click[c].at = point
NoCommand == \A c \in Clicks : ClickAt(c, "idle")

\* A command is called; all begin by asking for the lock.  While it shows no
\* connection the interface looks for a server by itself.  It asks for the
\* configuration when its page is loaded, at first and again: nothing is shown,
\* and (a bound) no command is under way.
Issue(c, command, url) ==
    /\ ClickAt(c, "idle")
    /\ url = NoServer <=> command # "connect"
    /\ command = "auto" => connected = "no"
    /\ IF command = "mount" THEN NoCommand /\ connected' = "no" ELSE UNCHANGED connected
    /\ click' = [click EXCEPT ![c] = [at |-> "lock", does |-> command, to |-> url]]
    /\ waiting' = Append(waiting, c)
    /\ takingTurns' = (takingTurns /\ (command # "request" =>
                           \A d \in Clicks : ClickAt(d, "idle") \/ click[d].does = "request"))
    /\ UNCHANGED <<serverUrl, token, reading>>

\* The lock is given to the first in the queue: a reader, or a writer when
\* nobody reads.
Locks(c, point) == ClickAt(c, point) /\ waiting # <<>> /\ c = Head(waiting)
Writes(c, point) == Locks(c, point) /\ reading = {} /\ waiting' = Tail(waiting)

ClickTo(c, point) == click' = [click EXCEPT ![c].at = point]
ClickDone(c) == click' = [click EXCEPT ![c] = Nothing]

-----------------------------------------------------------------------------
(* connect, disconnect                                                     *)

SetUrl(c) ==
    /\ Writes(c, "lock") /\ click[c].does = "connect"
    /\ serverUrl' = click[c].to
    /\ ClickTo(c, "token")
    /\ UNCHANGED <<token, connected, reading, takingTurns>>

\* The server gives a token, or the call fails and leaves the address.
GetToken(c) ==
    /\ ClickAt(c, "token")
    /\ \/ /\ ClickTo(c, "store") /\ waiting' = Append(waiting, c)
          /\ UNCHANGED takingTurns
       \/ /\ ClickTo(c, "no") /\ takingTurns' = FALSE
          /\ UNCHANGED waiting
    /\ UNCHANGED <<serverUrl, token, connected, reading>>

\* Mutant: a token that is there is kept.
SetTokenOnce(c) ==
    /\ Writes(c, "store")
    /\ token' = IF token = NoServer THEN click[c].to ELSE token
    /\ ClickTo(c, "yes")
    /\ UNCHANGED <<serverUrl, connected, reading, takingTurns>>

SetToken(c) ==
    /\ Writes(c, "store")
    /\ token' = click[c].to
    /\ ClickTo(c, "yes")
    /\ UNCHANGED <<serverUrl, connected, reading, takingTurns>>

Disconnect(c) ==
    /\ Writes(c, "lock") /\ click[c].does = "disconnect"
    /\ token' = NoServer
    /\ ClickTo(c, "no")
    /\ UNCHANGED <<serverUrl, connected, reading, takingTurns>>

\* get_config
GetConfig(c) ==
    /\ Locks(c, "lock") /\ click[c].does = "mount"
    /\ waiting' = Tail(waiting)
    /\ ClickTo(c, IF token = NoServer THEN "no" ELSE "yes")
    /\ UNCHANGED <<serverUrl, token, connected, reading, takingTurns>>

-----------------------------------------------------------------------------
(* The other commands: requests with the token, and health_check without   *)

\* Mutant: a request that cannot be made keeps its lock.
SendLeaks(c) ==
    /\ Locks(c, "lock") /\ click[c].does \in {"request", "auto"}
    /\ waiting' = Tail(waiting)
    /\ reading' = reading \cup {c}
    /\ IF click[c].does = "request" /\ token = NoServer THEN ClickDone(c) ELSE ClickTo(c, "answer")
    /\ UNCHANGED <<serverUrl, token, connected, takingTurns>>

\* A request without a token returns at once.
Send(c) ==
    /\ Locks(c, "lock") /\ click[c].does \in {"request", "auto"}
    /\ waiting' = Tail(waiting)
    /\ IF click[c].does = "request" /\ token = NoServer
       THEN ClickDone(c) /\ UNCHANGED reading
       ELSE ClickTo(c, "answer") /\ reading' = reading \cup {c}
    /\ UNCHANGED <<serverUrl, token, connected, takingTurns>>

\* The server answers, or the connection breaks, and the lock is released.
Answered(c) ==
    /\ ClickAt(c, "answer") /\ click[c].does = "request"
    /\ reading' = reading \ {c}
    /\ ClickDone(c)
    /\ UNCHANGED <<serverUrl, token, connected, waiting, takingTurns>>

\* The server is healthy, or it is not.
Healthy(c) ==
    /\ ClickAt(c, "answer") /\ click[c].does = "auto"
    /\ reading' = reading \ {c}
    /\ ClickDone(c) \/ ClickTo(c, "auto")
    /\ UNCHANGED <<serverUrl, token, connected, waiting, takingTurns>>

-----------------------------------------------------------------------------
\* The interface hears of the end.  A healthy server is shown as connected,
\* with or without a token for it.
Show(c) ==
    /\ click[c].at \in {"yes", "no", "auto"}
    /\ connected' = IF ClickAt(c, "auto") /\ connected # "no" THEN connected
                    ELSE click[c].at
    /\ ClickDone(c)
    /\ UNCHANGED <<serverUrl, token, waiting, reading, takingTurns>>

-----------------------------------------------------------------------------
Enter(c) == SetUrl(c) \/ SetToken(c) \/ Disconnect(c) \/ GetConfig(c) \/ Send(c)

ConsoleNext ==
    \/ \E c \in Clicks, command \in Commands, url \in Urls \cup {NoServer} :
          Issue(c, command, url)
    \/ \E c \in Clicks : Enter(c) \/ GetToken(c) \/ Answered(c) \/ Healthy(c) \/ Show(c)

ConsoleSpec == ConsoleInit /\ [][ConsoleNext]_consoleVars

\* tokio polls the commands; servers need not answer.
ConsoleFairness == \A c \in Clicks : WF_consoleVars(Enter(c))

FairConsoleSpec == ConsoleSpec /\ ConsoleFairness

-----------------------------------------------------------------------------
(* Properties                                                              *)

\* Between commands, as long as all but requests take turns and no connect
\* fails, the token is one of the server it is sent to, and the interface shows
\* a connection as its own (not as one it found) exactly when there is a token.
TokenFits ==
    takingTurns /\ NoCommand =>
        /\ token \in {NoServer, serverUrl}
        /\ connected = "yes" <=> token # NoServer

\* As long as no server leaves a request unanswered for ever every command gets
\* the lock, also one that writes behind an endless stream of requests.  (One
\* unanswered request makes the next command that writes wait, and all that
\* come after that one.)
CommandsReturn ==
    (\A d \in Clicks : []<>~ClickAt(d, "answer")) =>
        \A c \in Clicks :
            ClickAt(c, "lock") \/ ClickAt(c, "store") ~>
                ~ClickAt(c, "lock") /\ ~ClickAt(c, "store")
=============================================================================
