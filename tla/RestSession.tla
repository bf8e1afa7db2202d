----------------------------- MODULE RestSession -----------------------------
(***************************************************************************)
(* 03-REST API/client.c: the command loop of the library client, with its  *)
(* two pieces of state, the login cookie and the library token, and the    *)
(* service it talks to.  Every command opens a connection of its own,      *)
(* sends a request and reads the response with HttpReceive.                *)
(*                                                                         *)
(* The service is not in src/.  It is modelled by the answers the client   *)
(* tells apart: done, refused with a JSON error, or busy (429, no JSON);   *)
(* any answer may be cut short, or be missing altogether.                  *)
(***************************************************************************)
EXTENDS HttpReceive

CONSTANTS Users, Books,
          MaxSessions  \* bound: sessions the service opens

ASSUME RestAssumption ==
    /\ MaxSessions \in Nat
    /\ MaxSessions < Endless

NULL == 0             \* the null pointer; sessions are numbered from 1
Garbage == Endless    \* a cookie that no server has sent
SessionIds == 1..MaxSessions

VARIABLES
    client,      \* "prompt", "sent", "reading", "exited" or "crashed"
    request,     \* the request of the command being executed
    curr_cookie, \* NULL, the cookie of a session, or Garbage
    token,       \* NULL, or the token of a session
    strtok_rest, \* where strtok(NULL, ..) goes on: "unset", "text", "end", "freed"
    claim,       \* what the last command has told the user
    \* The service.
    accounts,    \* registered users
    sessions,    \* <<user, ...>>, the sessions opened so far
    closed,      \* those that were closed again
    shelf,       \* user -> its books
    outcome      \* history: how the request in progress was answered

clientVars == <<client, request, curr_cookie, token, strtok_rest, claim>>
service == <<accounts, sessions, closed, shelf>>
vars == <<receiver, clientVars, service, outcome>>

(***************************************************************************)
(* requests.c.  The cookie header is there, empty, also without a cookie.  *)
(***************************************************************************)

compute_request(method, url, arg, cookie, tok) ==
    [method |-> method, url |-> url, arg |-> arg, cookie |-> cookie, token |-> tok]

compute_get_request(url, arg, cookie, tok) ==
    compute_request("GET", url, arg, cookie, tok)
compute_post_request(url, arg, cookie, tok) ==
    compute_request("POST", url, arg, cookie, tok)
compute_delete_request(url, arg, cookie, tok) ==
    compute_request("DELETE", url, arg, cookie, tok)

NoRequest == compute_request("none", "none", NULL, NULL, NULL)

Init ==
    /\ InitReceiver
    /\ client = "prompt"
    /\ request = NoRequest
    /\ curr_cookie = NULL
    /\ token = NULL
    /\ strtok_rest = "unset"
    /\ claim = "none"
    /\ accounts = {}
    /\ sessions = <<>>
    /\ closed = {}
    /\ shelf = [u \in Users |-> {}]
    /\ outcome = "none"

(***************************************************************************)
(* Commands                                                                *)
(***************************************************************************)

\* A message to the user, and back to the prompt without a request.
Tell(what) ==
    /\ client = "prompt"
    /\ claim' = what
    /\ UNCHANGED <<receiver, client, request, curr_cookie, token, strtok_rest, service, outcome>>

\* open_connection and send_to_server.
Send(r) ==
    /\ client = "prompt"
    /\ client' = "sent"
    /\ request' = r
    /\ claim' = "none"
    /\ OpenReceiver
    /\ UNCHANGED <<curr_cookie, token, strtok_rest, service, outcome>>

Register(u) ==
    /\ curr_cookie = NULL
    /\ Send(compute_post_request("register", u, NULL, NULL))

Login(u) ==
    /\ curr_cookie = NULL
    /\ Send(compute_post_request("login", u, NULL, NULL))

\* Neither is allowed while there is a cookie.
LogoutFirst == curr_cookie # NULL /\ Tell("log out first")

EnterLibrary == Send(compute_get_request("access", NULL, curr_cookie, NULL))
GetBooks == Send(compute_get_request("books", NULL, curr_cookie, token))
GetBook(b) == Send(compute_get_request("book", b, curr_cookie, token))
AddBook(b) == Send(compute_post_request("books", b, curr_cookie, token))
DeleteBook(b) == Send(compute_delete_request("book", b, curr_cookie, token))
Logout == Send(compute_get_request("logout", NULL, curr_cookie, NULL))

\* An empty id, a page count that is not positive, an unknown command.
BadInput == Tell("not ok")

\* The process is gone, and with it all that it has stored.
Leave(how) ==
    /\ client' = how
    /\ request' = NoRequest
    /\ curr_cookie' = NULL
    /\ token' = NULL
    /\ strtok_rest' = "unset"
    /\ claim' = "none"
    /\ outcome' = "none"
    /\ OpenReceiver
    /\ UNCHANGED service

Exit == client = "prompt" /\ Leave("exited")

\* error(): connect, write or read has failed.
ConnectionError == client \in {"sent", "reading"} /\ Leave("exited")

\* The user starts the client again.
Restart ==
    /\ client \in {"exited", "crashed"}
    /\ client' = "prompt"
    /\ UNCHANGED <<receiver, request, curr_cookie, token, strtok_rest, claim, service, outcome>>

(***************************************************************************)
(* The service                                                             *)
(***************************************************************************)

Open(s) == s \in DOMAIN sessions /\ s \notin closed

\* A response: the lines of its header, of which only the last is written with
\* its CRLF, the empty line, and a body; its length is given in one of two
\* spellings, or not at all.
Response(status, fields, body, spelling) ==
    <<Seg(status)>>
    \o (IF spelling \in Spellings THEN <<<<spelling, Len(body)>>>> ELSE <<>>)
    \o fields \o HEADER_TERMINATOR \o body

Text == <<Seg("text")>>
Json(kind, value) == <<<<kind, value>>, Seg("}")>>
JsonKinds == {"{error", "{token", "{books", "{book"}

\* What is answered and what happens to the service; how is "done", "refused"
\* or "busy".
Answered(how, fields, body) ==
    /\ client = "sent"
    /\ client' = "reading"
    /\ LET status == IF how = "done" THEN "2xx" ELSE IF how = "refused" THEN "4xx" ELSE "429"
           Whole(spelling) == Response(status, fields, body, spelling)
           Pieces == {SubSeq(Whole("Content-Length"), 1, k) : k \in 0..(Len(Whole("Content-Length")) - 1)}
       IN
       \/ \E spelling \in Spellings \cup {"none"} :
             /\ arriving' = Whole(spelling)
             /\ ended' = (spelling = "none")
             /\ outcome' = how
       \/ /\ arriving' \in Pieces
          /\ ended' = TRUE
          /\ outcome' = "cut"
    /\ UNCHANGED <<buffer, total, request, curr_cookie, token, strtok_rest, claim>>

Refused == Answered("refused", <<>>, Json("{error", NULL))
Done(fields, body) == Answered("done", fields, body)

Owner == sessions[request.token]
Authorized == request.token # NULL

ServeRegister ==
    /\ request.url = "register"
    /\ IF request.arg \in accounts THEN Refused /\ UNCHANGED accounts
       ELSE Done(<<>>, Text) /\ accounts' = accounts \cup {request.arg}
    /\ UNCHANGED <<sessions, closed, shelf>>

ServeLogin ==
    /\ request.url = "login"
    /\ IF request.arg \notin accounts \/ Len(sessions) = MaxSessions
       THEN Refused /\ UNCHANGED sessions
       ELSE /\ Done(<<<<"Set-Cookie", Len(sessions) + 1>>>>, Text)
            /\ sessions' = Append(sessions, request.arg)
    /\ UNCHANGED <<accounts, closed, shelf>>

ServeAccess ==
    /\ request.url = "access"
    /\ IF Open(request.cookie) THEN Done(<<>>, Json("{token", request.cookie)) ELSE Refused
    /\ UNCHANGED <<accounts, sessions, closed, shelf>>

ServeBooks ==
    /\ request.url = "books" /\ request.method = "GET"
    /\ IF ~Authorized THEN Refused
       ELSE Done(<<>>, IF shelf[Owner] = {} THEN <<Seg("[]")>> ELSE Json("{books", NULL))
    /\ UNCHANGED <<accounts, sessions, closed, shelf>>

ServeBook ==
    /\ request.url = "book" /\ request.method = "GET"
    /\ IF Authorized /\ request.arg \in shelf[Owner]
       THEN Done(<<>>, Json("{book", NULL)) ELSE Refused
    /\ UNCHANGED <<accounts, sessions, closed, shelf>>

ServeAdd ==
    /\ request.url = "books" /\ request.method = "POST"
    /\ IF Authorized
       THEN /\ Done(<<>>, Text)
            /\ shelf' = [shelf EXCEPT ![Owner] = @ \cup {request.arg}]
       ELSE Refused /\ UNCHANGED shelf
    /\ UNCHANGED <<accounts, sessions, closed>>

ServeDelete ==
    /\ request.url = "book" /\ request.method = "DELETE"
    /\ IF Authorized /\ request.arg \in shelf[Owner]
       THEN /\ Done(<<>>, Text)
            /\ shelf' = [shelf EXCEPT ![Owner] = @ \ {request.arg}]
       ELSE Refused /\ UNCHANGED shelf
    /\ UNCHANGED <<accounts, sessions, closed>>

ServeLogout ==
    /\ request.url = "logout"
    /\ IF Open(request.cookie) THEN Done(<<>>, Text) /\ closed' = closed \cup {request.cookie}
       ELSE Refused /\ UNCHANGED closed
    /\ UNCHANGED <<accounts, sessions, shelf>>

\* Any request may meet a busy service, which does nothing.
ServeBusy ==
    /\ Answered("busy", <<>>, Text)
    /\ UNCHANGED <<accounts, sessions, closed, shelf>>

Serve ==
    \/ ServeRegister
    \/ ServeLogin
    \/ ServeAccess
    \/ ServeBooks
    \/ ServeBook
    \/ ServeAdd
    \/ ServeDelete
    \/ ServeLogout
    \/ ServeBusy

(***************************************************************************)
(* Responses                                                               *)
(***************************************************************************)

\* One more read of receive_from_server.
Receive ==
    /\ client = "reading"
    /\ ReadStep
    /\ UNCHANGED <<clientVars, service, outcome>>

KeptAliveCloses ==
    /\ client = "reading"
    /\ ServerCloses
    /\ UNCHANGED <<clientVars, service, outcome>>

\* basic_extract_json_response: the first {" of the response.
HasJson == \E i \in DOMAIN buffer : buffer[i][1] \in JsonKinds
\* json_parse_string of it: NULL unless the object is there to its end.
ParsedAs(kind) == \E i \in DOMAIN buffer : buffer[i][1] = kind /\ Seg("}") \in {buffer[j] : j \in DOMAIN buffer}
Error == ParsedAs("{error")
FieldOf(kind) == buffer[CHOOSE i \in DOMAIN buffer : buffer[i][1] = kind][2]
\* Mutant: any 4xx status.
Received4xx == \E i \in DOMAIN buffer : buffer[i][1] \in {"4xx", "429"}

Received429 == \E i \in DOMAIN buffer : buffer[i][1] = "429"

\* The response to a request for url has been read and dealt with: the client
\* reports what, and is at the prompt again.
Returned(method, url) ==
    /\ client = "reading"
    /\ Received
    /\ request.method = method
    /\ request.url = url

Handled(method, url, what) ==
    /\ Returned(method, url)
    /\ client' = "prompt"
    /\ claim' = what
    /\ request' = NoRequest
    /\ outcome' = "none"
    /\ OpenReceiver
    /\ UNCHANGED service

Crashed(method, url) == Returned(method, url) /\ Leave("crashed")

\* check_log reports an error if there is one in the JSON.
LogResult == IF Error THEN "refused" ELSE "nothing"

RegisterAnswer ==
    /\ Handled("POST", "register", IF HasJson THEN LogResult ELSE "done")
    /\ UNCHANGED <<curr_cookie, token, strtok_rest>>

LoginError ==
    /\ HasJson
    /\ Handled("POST", "login", LogResult)
    /\ UNCHANGED <<curr_cookie, token, strtok_rest>>

HasCookie == \E i \in DOMAIN buffer : buffer[i][1] = "Set-Cookie"

\* Without JSON the login is taken for done.
LoginDone ==
    /\ ~HasJson
    /\ HasCookie
    /\ Handled("POST", "login", "done")
    /\ curr_cookie' = FieldOf("Set-Cookie")
    /\ strtok_rest' \in {"text", "end"}
    /\ UNCHANGED token

\* If there is no cookie either, strtok(NULL) goes on in the response it was
\* last used on, and a line of that becomes the cookie ...
LoginOldText ==
    /\ ~HasJson
    /\ ~HasCookie
    /\ strtok_rest \in {"text", "freed"}
    /\ Handled("POST", "login", "done")
    /\ curr_cookie' = Garbage
    /\ strtok_rest' \in {strtok_rest, "end"}
    /\ UNCHANGED token

\* ... or the null pointer is used.
LoginCrash ==
    /\ ~HasJson
    /\ ~HasCookie
    /\ strtok_rest # "text"
    /\ Crashed("POST", "login")

NewToken == IF ParsedAs("{token") THEN FieldOf("{token") ELSE NULL

\* lib_access: without an error, access is reported and the token replaced.
LibAccess ==
    /\ Handled("GET", "access", IF Error THEN "refused" ELSE "done")
    /\ token' = IF Error THEN token ELSE NewToken
    /\ UNCHANGED <<curr_cookie, strtok_rest>>

BooksCheck ==
    /\ Handled("GET", "books", IF Error THEN "refused" ELSE IF HasJson THEN "list" ELSE "empty")
    /\ UNCHANGED <<curr_cookie, token, strtok_rest>>

IdBookCheck ==
    /\ Handled("GET", "book", IF Error THEN "refused" ELSE IF ParsedAs("{book") THEN "done" ELSE "nothing")
    /\ UNCHANGED <<curr_cookie, token, strtok_rest>>

\* printf("%s\n", NULL), where no object could be parsed.
IdBookCrash ==
    /\ \A kind \in JsonKinds : ~ParsedAs(kind)
    /\ Crashed("GET", "book")

\* add_check: the only place that looks at the status line.  Its copy of the
\* response is what strtok was last used on; if busy, the copy is freed.
AddCheck ==
    /\ buffer # <<>>
    /\ IF Received429
       THEN Handled("POST", "books", "busy") /\ strtok_rest' = "freed"
       ELSE /\ Handled("POST", "books", IF Error THEN "refused" ELSE "done")
            /\ strtok_rest' \in {"text", "end"}
    /\ UNCHANGED <<curr_cookie, token>>

\* An empty response has no first line.
AddCrash == buffer = <<>> /\ Crashed("POST", "books")

DeleteCheck ==
    /\ Handled("DELETE", "book", IF Error THEN "refused" ELSE "done")
    /\ UNCHANGED <<curr_cookie, token, strtok_rest>>

\* Mutant: an answer without a body is not taken for success.
LogoutConfirmed == ~HasJson /\ \E i \in DOMAIN buffer : buffer[i][1] = "text"

LogoutAccepted == ~HasJson

LogoutError ==
    /\ ~LogoutAccepted
    /\ Handled("GET", "logout", LogResult)
    /\ UNCHANGED <<curr_cookie, token, strtok_rest>>

\* Mutant: the token of the session is not removed.
ForgetCookie == curr_cookie' = NULL /\ UNCHANGED token

\* Mutant: the token is freed but not reset.
DanglingToken == curr_cookie' = NULL /\ token' = Garbage

ForgetSession == curr_cookie' = NULL /\ token' = NULL

LogoutDone ==
    /\ LogoutAccepted
    /\ Handled("GET", "logout", "done")
    /\ ForgetSession
    /\ UNCHANGED strtok_rest

Handle ==
    \/ RegisterAnswer
    \/ LoginError
    \/ LoginDone
    \/ LoginOldText
    \/ LoginCrash
    \/ LibAccess
    \/ BooksCheck
    \/ IdBookCheck
    \/ IdBookCrash
    \/ AddCheck
    \/ AddCrash
    \/ DeleteCheck
    \/ LogoutError
    \/ LogoutDone

Command ==
    \/ \E u \in Users : Register(u) \/ Login(u)
    \/ LogoutFirst
    \/ EnterLibrary
    \/ GetBooks
    \/ \E b \in Books : GetBook(b) \/ AddBook(b) \/ DeleteBook(b)
    \/ Logout
    \/ BadInput

Next ==
    \/ Command
    \/ Exit
    \/ ConnectionError
    \/ Restart
    \/ Serve
    \/ Receive
    \/ KeptAliveCloses
    \/ Handle

Spec == Init /\ [][Next]_vars /\ WF_vars(Serve) /\ WF_vars(Receive) /\ WF_vars(Handle)

(***************************************************************************)
(* Properties                                                              *)
(***************************************************************************)

Credentials == {NULL, Garbage} \cup SessionIds
Kinds == Spellings \cup JsonKinds \cup {"2xx", "4xx", "429", "Set-Cookie", "crlf", "text", "}", "[]"}
Segments == Kinds \X Nat

TypeOK ==
    /\ arriving \in Seq(Segments)
    /\ ended \in BOOLEAN
    /\ buffer \in Seq(Segments)
    /\ total \in Int
    /\ client \in {"prompt", "sent", "reading", "exited", "crashed"}
    /\ request.cookie \in Credentials
    /\ request.token \in {NULL} \cup SessionIds
    /\ curr_cookie \in Credentials
    /\ token \in {NULL} \cup SessionIds
    /\ strtok_rest \in {"unset", "text", "end", "freed"}
    /\ accounts \subseteq Users
    /\ sessions \in Seq(Users)
    /\ Len(sessions) <= MaxSessions
    /\ closed \subseteq DOMAIN sessions
    /\ shelf \in [Users -> SUBSET Books]

\* The token belongs to the session of the cookie: no user ever works in the
\* library of the one who was logged in before, whatever answers were lost.
TokenOfSession == token # NULL => token = curr_cookie

\* At the prompt, the cookie is of a session that is still open: whenever the
\* service has closed a session, also if its answer was lost, the client has
\* given up the cookie.
CookieOpen ==
    client = "prompt" /\ curr_cookie \in SessionIds => Open(curr_cookie)

\* receive_from_server returns with nothing of the response left unread,
\* however it was split, and with or without a length.
ReceivedWhole == client = "reading" /\ Received => arriving = <<>>

\* Whatever the pieces the answer came in: if it was whole, and not 429, what
\* the user is told is what the service did, and the client does not crash.
ClaimTrue ==
    \/ client' \in {"reading", "exited"}
    \/ /\ client' = "prompt"
       /\ IF request.url = "books" /\ request.method = "GET" /\ outcome = "done"
          THEN claim' = IF shelf[Owner] = {} THEN "empty" ELSE "list"
          ELSE claim' = outcome

ClaimsTrue == [][client = "reading" /\ outcome \in {"done", "refused"} => ClaimTrue]_vars

\* Every command comes to its end, although the service need not close the
\* connection after an answer with a length.
CommandEnds == client = "sent" ~> client \notin {"sent", "reading"}
=============================================================================
