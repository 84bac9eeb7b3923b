----------------------------- MODULE Conversation -----------------------------
(***************************************************************************)
(* What ties a visitor's questions together: the page's messages,          *)
(* conversation id and last topic (frontend/app/page.tsx), the browser's   *)
(* session cookie, and the stateless server that chooses or echoes them    *)
(* (the middleware and chat() in backend/app/main.py).  The pages are tabs *)
(* of one browser; connections break and handlers fail.                    *)
(*                                                                         *)
(* A UUID the server makes up is the number of the submission it is made   *)
(* up for.                                                                 *)
(***************************************************************************)
EXTENDS Integers, Sequences, FiniteSets

CONSTANTS
    Pages,          \* tabs
    Topics,         \* card ids a topic can be
    NoTopic,        \* last_topic is null
    MaxSubmissions, \* bound on the questions asked
    MaxLoads        \* bound on how often a tab is loaded

ASSUME ConversationAssumption ==
    /\ NoTopic \notin Topics
    /\ MaxSubmissions \in Nat /\ MaxLoads \in Nat \ {0}

VARIABLES
    cookie,         \* ask_piotr_session_id of the browser, 0 when not set
    pages,          \* state of each page
    wire,           \* requests and responses on their way
    asked,          \* questions asked so far
    rows,           \* interactions handed to the background log
    delivered       \* answers that reached the page that asked (history)

vars == <<cookie, pages, wire, asked, rows, delivered>>

None == 0
Ids == 0..MaxSubmissions

Fresh(load) ==
    [load |-> load, loading |-> FALSE, messages |-> <<>>, conversation |-> None, topic |-> NoTopic]

Init ==
    /\ cookie = None
    /\ pages = [p \in Pages |-> Fresh(1)]
    /\ wire = {} /\ asked = 0 /\ rows = {} /\ delivered = {}

-------------------------------------------------------------------------------

\* Mutant: submitting does not look at the loading flag.
Submit_WhileLoading(p) ==
    /\ asked < MaxSubmissions
    /\ asked' = asked + 1
    /\ pages' = [pages EXCEPT ![p].loading = TRUE, ![p].messages = Append(@, "user")]
    /\ wire' = wire \cup
        {[what |-> "request", id |-> asked + 1, page |-> p, load |-> pages[p].load,
          session |-> cookie, conversation |-> pages[p].conversation,
          topic |-> IF Len(pages[p].messages) >= 2 THEN pages[p].topic ELSE NoTopic,
          history |-> Len(pages[p].messages) > 0, connected |-> TRUE]}
    /\ UNCHANGED <<cookie, rows, delivered>>

\* submitQuestion, from the Enter key or the button, both dead while loading.
\* The history excludes the question; the browser attaches its cookie.
Submit(p) ==
    /\ ~pages[p].loading
    /\ asked < MaxSubmissions
    /\ asked' = asked + 1
    /\ pages' = [pages EXCEPT ![p].loading = TRUE, ![p].messages = Append(@, "user")]
    /\ wire' = wire \cup
        {[what |-> "request", id |-> asked + 1, page |-> p, load |-> pages[p].load,
          session |-> cookie, conversation |-> pages[p].conversation,
          topic |-> IF Len(pages[p].messages) >= 2 THEN pages[p].topic ELSE NoTopic,
          history |-> Len(pages[p].messages) > 0, connected |-> TRUE]}
    /\ UNCHANGED <<cookie, rows, delivered>>

\* The tab is reloaded: the state of the page is gone, the cookie is not, and
\* nobody waits for an answer any more.
Reload(p) ==
    /\ pages[p].load < MaxLoads
    /\ pages' = [pages EXCEPT ![p] = Fresh(@.load + 1)]
    /\ UNCHANGED <<cookie, wire, asked, rows, delivered>>

\* The middleware: the cookie of the request, or a new id.
SessionOf(m) == IF m.session # None THEN m.session ELSE m.id

\* Mutant: chat() always starts a conversation.
ConversationOf_Fresh(m) == m.id

\* chat(): the client's conversation id, or a new one.
ConversationOf(m) == IF m.conversation # None THEN m.conversation ELSE m.id

\* The card of the best chunk; without chunks, the incoming topic if it was
\* used for retrieval: the client sent one with some history, and the
\* question reads like a follow-up.
ResolvedTopics(m) ==
    Topics \cup {NoTopic} \cup (IF m.history THEN {m.topic} ELSE {})

\* sent is the cookie the request came with (history).
Response(m, kind, topic, session) ==
    [what |-> kind, id |-> m.id, page |-> m.page, load |-> m.load, topic |-> topic,
     sent |-> m.session, session |-> session, conversation |-> ConversationOf(m)]

\* What a response does to the wire: nothing when the connection is gone.
Send(m, response) == wire' = (wire \ {m}) \cup (IF m.connected THEN {response} ELSE {})

\* Mutant: the cookie is renewed with every response.
NewSession_Always(m) == SessionOf(m)

\* A cookie goes out only with a response to a request that came without one.
NewSession(m) == IF m.session = None THEN SessionOf(m) ELSE None

\* chat() answers, and the interaction is logged whether or not the answer
\* arrives.
Answer(m) ==
    /\ m.what = "request"
    /\ \E topic \in ResolvedTopics(m) :
        /\ Send(m, Response(m, "answer", topic, NewSession(m)))
        /\ rows' = rows \cup {[id |-> m.id, page |-> m.page, load |-> m.load,
                               session |-> SessionOf(m), conversation |-> ConversationOf(m),
                               incoming |-> m.topic]}
    /\ UNCHANGED <<cookie, pages, asked, delivered>>

\* An error some handler answers (401, 422, 429, 503) passes the middleware
\* and gets its cookie; any other one (500) does not.
Fail(m) ==
    /\ m.what = "request"
    /\ \E session \in {NewSession(m), None} : Send(m, Response(m, "error", NoTopic, session))
    /\ UNCHANGED <<cookie, pages, asked, rows, delivered>>

\* The page that asked is still there to be answered.
Waiting(m) == pages[m.page].load = m.load

AddBubble(page, kind) == [page EXCEPT !.messages = Append(@, kind), !.loading = FALSE]

\* Mutant: loading is reset after an answer only.
ErrorBubble_StillLoading(page) == [page EXCEPT !.messages = Append(@, "error")]

\* The catch and finally of submitQuestion.
ErrorBubble(page) == AddBubble(page, "error")

\* The answer is shown and its context kept; a topic of null leaves the last
\* one standing.
AnswerBubble(page, m) ==
    [AddBubble(page, "answer") EXCEPT
        !.conversation = m.conversation,
        !.topic = IF m.topic # NoTopic THEN m.topic ELSE @]

\* A response arrives: the browser keeps the cookie, whoever waits.
Deliver(m) ==
    /\ m.what \in {"answer", "error"}
    /\ wire' = wire \ {m}
    /\ cookie' = IF m.session # None THEN m.session ELSE cookie
    /\ pages' = IF ~Waiting(m) THEN pages
                ELSE [pages EXCEPT ![m.page] = IF m.what = "answer" THEN AnswerBubble(@, m)
                                               ELSE ErrorBubble(@)]
    /\ delivered' = IF Waiting(m) /\ m.what = "answer" THEN delivered \cup {m} ELSE delivered
    /\ UNCHANGED <<asked, rows>>

\* The connection breaks: fetch rejects.  A request may be lost, or reach the
\* server all the same; a response is lost.
Break(m) ==
    /\ m.what = "request" => m.connected
    /\ \E rest \in {{}} \cup (IF m.what = "request" THEN {{[m EXCEPT !.connected = FALSE]}} ELSE {}) :
           wire' = (wire \ {m}) \cup rest
    /\ pages' = IF Waiting(m) THEN [pages EXCEPT ![m.page] = ErrorBubble(@)] ELSE pages
    /\ UNCHANGED <<cookie, asked, rows, delivered>>

Handle(id) == \E m \in wire : m.id = id /\ (Answer(m) \/ Fail(m) \/ Deliver(m) \/ Break(m))

Next ==
    \/ \E p \in Pages : Submit(p) \/ Reload(p)
    \/ \E m \in wire : Answer(m) \/ Fail(m) \/ Deliver(m) \/ Break(m)

Spec == Init /\ [][Next]_vars

\* The server's calls have timeouts and a dead connection is noticed.  Nobody
\* has to ask or to reload.
FairSpec == Spec /\ \A id \in 1..MaxSubmissions : WF_vars(Handle(id))

-------------------------------------------------------------------------------

\* Each page holds values of their kinds, and its messages are turns: every
\* question has been followed by one answer or error before the next one is
\* asked, and a question is last exactly while the page is loading
\* (page.tsx:544, :628).  The history of the next request depends on it.
TurnsAlternate ==
    \A p \in Pages :
        LET messages == pages[p].messages
        IN  /\ pages[p].load \in 1..MaxLoads
            /\ pages[p].conversation \in Ids
            /\ pages[p].topic \in Topics \cup {NoTopic}
            /\ \A i \in DOMAIN messages : messages[i] = "user" <=> i % 2 = 1
            /\ pages[p].loading <=> Len(messages) % 2 = 1

\* Of one load of one page.
SamePage(x, y) == x.page = y.page /\ x.load = y.load

\* One load of a page is one conversation: whatever is lost, failed or
\* answered late, the answers it showed carry the conversation id it holds,
\* no other page's rows carry that id, and the topic it sends is the one of
\* its latest answer that had a topic (main.py:555, :1069; page.tsx:602).
ContextFollowsPage ==
    /\ \A d \in delivered :
           d.load = pages[d.page].load => d.conversation = pages[d.page].conversation
    /\ \A r, s \in rows : r.conversation = s.conversation => SamePage(r, s)
    /\ \A r \in rows :
           LET earlier == {d \in delivered : SamePage(d, r) /\ d.id < r.id /\ d.topic # NoTopic}
           IN  r.incoming # NoTopic =>
                   \E d \in earlier : d.topic = r.incoming /\ \A e \in earlier : e.id <= d.id

\* An exchange that began before the browser had a cookie.
Unsettled(m) == (IF m.what = "request" THEN m.session ELSE m.sent) = None

\* "Used as a stable pseudonymous identifier" (docs/ARCHITECTURE.md:558):
\* once the browser has a cookie and no exchange begun without one is under
\* way, the session id never changes again, whatever the tabs do.
SessionSettles ==
    [][cookie # None /\ (\A m \in wire : ~Unsettled(m)) => cookie' = cookie]_vars

\* Every submission comes to an end and the page can ask again, though the
\* request, the answer or the handler is lost (page.tsx:613).
SubmissionEnds == \A p \in Pages : pages[p].loading ~> ~pages[p].loading

===============================================================================
