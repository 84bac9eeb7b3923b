-------------------------- MODULE ConversationProofs --------------------------
(***************************************************************************)
(* What ties a visitor's questions together, for any number of tabs,       *)
(* topics, submissions and reloads: turns alternate, one load of a tab is  *)
(* one conversation with a topic of its own, and the session id settles,   *)
(* whatever requests and answers are lost, failed or late.                 *)
(***************************************************************************)
EXTENDS Conversation, TLAPS

(***************************************************************************)
(* The inductive invariant.                                                *)
(***************************************************************************)

Requests ==
    [what : {"request"}, id : Ids, page : Pages, load : 1..MaxLoads, session : Ids,
     conversation : Ids, topic : Topics \cup {NoTopic}, history : BOOLEAN, connected : BOOLEAN]

Responses ==
    [what : {"answer", "error"}, id : Ids, page : Pages, load : 1..MaxLoads,
     topic : Topics \cup {NoTopic}, sent : Ids, session : Ids, conversation : Ids]

Rows ==
    [id : Ids, page : Pages, load : 1..MaxLoads, session : Ids, conversation : Ids,
     incoming : Topics \cup {NoTopic}]

PageStates ==
    [load : 1..MaxLoads, loading : BOOLEAN, messages : Seq({"user", "answer", "error"}),
     conversation : Ids, topic : Topics \cup {NoTopic}]

TypeInv ==
    /\ cookie \in Ids
    /\ pages \in [Pages -> PageStates]
    /\ wire \subseteq Requests \cup Responses
    /\ asked \in Ids
    /\ rows \subseteq Rows
    /\ delivered \subseteq Responses

\* Everything a submission has left anywhere.
Traces == wire \cup rows \cup delivered

\* Somebody at the page's end of the connection can still hear of m.
LiveOn(m, tabs) == (m.what = "request" => m.connected) /\ tabs[m.page].load = m.load

Live(m) == LiveOn(m, pages)

\* A submission has one trace on the wire, none of which is from the future,
\* and no row before it is answered.
SubmissionInv ==
    /\ \A x \in Traces : x.id \in 1..asked /\ x.load <= pages[x.page].load
    /\ \A m, n \in wire : m.id = n.id => m = n
    /\ \A r, s \in rows : r.id = s.id => r = s
    /\ \A m \in wire, r \in rows : m.what = "request" => m.id # r.id

\* A page is loading exactly while one live message is on the wire for it, and
\* that message is of its latest submission.
LoadingInv ==
    /\ \A m \in wire : Live(m) =>
           /\ pages[m.page].loading
           /\ \A x \in Traces : SamePage(x, m) => x.id <= m.id
    /\ \A p \in Pages : pages[p].loading => \E m \in wire : Live(m) /\ m.page = p

\* A conversation id is the number of a row, and everything that carries it
\* comes from the page of that row.
OwnsConversation(log, k, page, load) ==
    \E r \in log : r.id = k /\ r.page = page /\ r.load = load

ConversationInv ==
    /\ \A r \in rows : OwnsConversation(rows, r.conversation, r.page, r.load)
    /\ \A m \in wire : m.what = "request" /\ m.conversation # None
           => OwnsConversation(rows, m.conversation, m.page, m.load)
    /\ \A m \in wire : m.what = "answer" => OwnsConversation(rows, m.conversation, m.page, m.load)
    /\ \A p \in Pages : pages[p].conversation # None
           => OwnsConversation(rows, pages[p].conversation, p, pages[p].load)

\* What a live message will make of its page's conversation is what it is
\* already, if it has one.
ContextInv ==
    /\ \A m \in wire : Live(m) /\ m.what \in {"request", "answer"} =>
           /\ m.what = "request" => m.conversation = pages[m.page].conversation
           /\ m.what = "answer" => /\ m.conversation # None
                                   /\ pages[m.page].conversation \in {None, m.conversation}
    /\ \A d \in delivered :
           d.load = pages[d.page].load => /\ d.conversation = pages[d.page].conversation
                                          /\ d.conversation # None

\* The answers that had a topic and that a submission of the page could know.
Earlier(answers, id, page, load) ==
    {d \in answers : d.page = page /\ d.load = load /\ d.id < id /\ d.topic # NoTopic}

\* topic is that of the latest of them.
FromLatest(topic, answers, id, page, load) ==
    topic # NoTopic =>
        \E d \in Earlier(answers, id, page, load) :
            d.topic = topic /\ \A e \in Earlier(answers, id, page, load) : e.id <= d.id

TopicInv ==
    /\ \A m \in wire : m.what = "request" => FromLatest(m.topic, delivered, m.id, m.page, m.load)
    /\ \A r \in rows : FromLatest(r.incoming, delivered, r.id, r.page, r.load)
    /\ \A p \in Pages : FromLatest(pages[p].topic, delivered, asked + 1, p, pages[p].load)

\* A cookie goes out only in answer to a request that had none.
CookieInv == \A m \in wire : m.what # "request" /\ m.session # None => m.sent = None

IInv ==
    /\ TypeInv /\ TurnsAlternate
    /\ SubmissionInv /\ LoadingInv
    /\ ConversationInv /\ ContextInv /\ TopicInv /\ CookieInv

-------------------------------------------------------------------------------
(***************************************************************************)
(* Messages and pages.                                                     *)
(***************************************************************************)

LEMMA MessageFields ==
    ASSUME NEW m \in Requests \cup Responses
    PROVE  /\ m.id \in Ids /\ m.page \in Pages /\ m.load \in 1..MaxLoads
           /\ m.what \in {"request", "answer", "error"}
           /\ m.session \in Ids /\ m.conversation \in Ids /\ m.topic \in Topics \cup {NoTopic}
           /\ m.what = "request" <=> m \in Requests
           /\ m.what # "request" <=> m \in Responses
BY DEF Requests, Responses

\* A request whose connection broke is otherwise the same.
LEMMA Disconnected ==
    ASSUME NEW m \in Requests, NEW n, n = [m EXCEPT !.connected = FALSE]
    PROVE  /\ n \in Requests /\ n.connected = FALSE /\ n.what = m.what
           /\ n.id = m.id /\ n.page = m.page /\ n.load = m.load /\ n.session = m.session
           /\ n.conversation = m.conversation /\ n.topic = m.topic
BY DEF Requests

\* The conversation a request belongs to, and the response to it.
LEMMA ResponseFields ==
    ASSUME ConversationAssumption, NEW m \in Requests, m.id \in 1..asked, asked \in Ids,
           NEW kind \in {"answer", "error"}, NEW topic \in Topics \cup {NoTopic},
           NEW session \in {NewSession(m), None}
    PROVE  /\ Response(m, kind, topic, session) \in Responses
           /\ Response(m, kind, topic, session).what = kind
           /\ Response(m, kind, topic, session).id = m.id
           /\ Response(m, kind, topic, session).page = m.page
           /\ Response(m, kind, topic, session).load = m.load
           /\ Response(m, kind, topic, session).topic = topic
           /\ Response(m, kind, topic, session).conversation = ConversationOf(m)
           /\ Response(m, kind, topic, session).session # None
                  => Response(m, kind, topic, session).sent = None
           /\ ConversationOf(m) \in Ids \ {None}
           /\ ConversationOf(m) \in {m.id, m.conversation}
           /\ m.conversation # None => ConversationOf(m) = m.conversation
           /\ SessionOf(m) \in Ids
<1>1. m.id \in Ids /\ m.session \in Ids /\ m.conversation \in Ids /\ m.id # None
  BY DEF Requests, Ids, None
<1>2. SessionOf(m) \in Ids /\ NewSession(m) \in Ids /\ (NewSession(m) # None => m.session = None)
  BY <1>1 DEF SessionOf, NewSession, Ids, None, ConversationAssumption
<1>3. ConversationOf(m) \in Ids \ {None} /\ ConversationOf(m) \in {m.id, m.conversation}
      /\ (m.conversation # None => ConversationOf(m) = m.conversation)
  BY <1>1 DEF ConversationOf
<1>4. session \in Ids /\ (session # None => m.session = None)
  BY <1>2 DEF Ids, None, ConversationAssumption
<1>5. m.page \in Pages /\ m.load \in 1..MaxLoads
  BY DEF Requests
<1>6. QED BY <1>1, <1>2, <1>3, <1>4, <1>5 DEF Response, Responses

\* One more turn: a question to a page that shows none open, or the reply to
\* an open one.
LEMMA AppendTurn ==
    ASSUME NEW s \in Seq({"user", "answer", "error"}), NEW turn \in {"user", "answer", "error"},
           \A i \in DOMAIN s : s[i] = "user" <=> i % 2 = 1,
           turn = "user" <=> Len(s) % 2 = 0
    PROVE  /\ Append(s, turn) \in Seq({"user", "answer", "error"})
           /\ \A i \in DOMAIN Append(s, turn) : Append(s, turn)[i] = "user" <=> i % 2 = 1
           /\ Len(Append(s, turn)) % 2 = 1 <=> Len(s) % 2 = 0
<1>1. Len(Append(s, turn)) = Len(s) + 1 /\ DOMAIN Append(s, turn) = 1..(Len(s) + 1)
      /\ Len(s) \in Nat /\ DOMAIN s = 1..Len(s)
  OBVIOUS
<1>2. \A i \in 1..Len(s) : Append(s, turn)[i] = s[i]
  OBVIOUS
<1>3. Append(s, turn)[Len(s) + 1] = turn
  OBVIOUS
<1>4. (Len(s) + 1) % 2 = 1 <=> Len(s) % 2 = 0
  BY <1>1
<1>5. \A i \in 1..(Len(s) + 1) : i \in 1..Len(s) \/ i = Len(s) + 1
  BY <1>1
<1>6. QED BY <1>1, <1>2, <1>3, <1>4, <1>5

LEMMA ReplyTurn ==
    ASSUME NEW s \in Seq({"user", "answer", "error"}), NEW kind \in {"answer", "error"},
           \A i \in DOMAIN s : s[i] = "user" <=> i % 2 = 1, Len(s) % 2 = 1
    PROVE  /\ \A i \in DOMAIN Append(s, kind) : Append(s, kind)[i] = "user" <=> i % 2 = 1
           /\ ~(Len(Append(s, kind)) % 2 = 1)
<1>1. Len(s) % 2 # 0 /\ kind # "user" /\ kind \in {"user", "answer", "error"}
  OBVIOUS
<1>2. QED BY <1>1, AppendTurn

\* The bubble that ends a submission, and the context kept from an answer.
LEMMA AddBubbleFields ==
    ASSUME NEW page \in PageStates, NEW kind \in {"answer", "error"}
    PROVE  /\ AddBubble(page, kind) \in PageStates /\ ~AddBubble(page, kind).loading
           /\ AddBubble(page, kind).load = page.load
           /\ AddBubble(page, kind).conversation = page.conversation
           /\ AddBubble(page, kind).topic = page.topic
           /\ AddBubble(page, kind).messages = Append(page.messages, kind)
<1>1. Append(page.messages, kind) \in Seq({"user", "answer", "error"})
  BY DEF PageStates
<1> DEFINE messages == Append(page.messages, kind)
<1>2. AddBubble(page, kind) = [page EXCEPT !.messages = messages, !.loading = FALSE]
  BY DEF AddBubble
<1> HIDE DEF messages
<1>3. AddBubble(page, kind) \in PageStates /\ AddBubble(page, kind).messages = messages
  BY <1>1, <1>2 DEF PageStates, messages
<1>4. /\ ~AddBubble(page, kind).loading
      /\ AddBubble(page, kind).load = page.load
      /\ AddBubble(page, kind).conversation = page.conversation
      /\ AddBubble(page, kind).topic = page.topic
  BY <1>2 DEF PageStates
<1>5. QED BY <1>3, <1>4 DEF messages

LEMMA AnswerBubbleFields ==
    ASSUME NEW page \in PageStates, NEW m \in Responses
    PROVE  /\ AnswerBubble(page, m) \in PageStates /\ ~AnswerBubble(page, m).loading
           /\ AnswerBubble(page, m).load = page.load
           /\ AnswerBubble(page, m).conversation = m.conversation
           /\ AnswerBubble(page, m).topic = IF m.topic # NoTopic THEN m.topic ELSE page.topic
           /\ AnswerBubble(page, m).messages = Append(page.messages, "answer")
<1> DEFINE shown == AddBubble(page, "answer")
           topic == IF m.topic # NoTopic THEN m.topic ELSE shown.topic
<1>1. /\ shown \in PageStates /\ ~shown.loading /\ shown.load = page.load
      /\ shown.topic = page.topic /\ shown.messages = Append(page.messages, "answer")
  BY AddBubbleFields
<1>2. AnswerBubble(page, m) = [shown EXCEPT !.conversation = m.conversation, !.topic = topic]
  BY DEF AnswerBubble
<1>3. m.conversation \in Ids /\ topic \in Topics \cup {NoTopic}
  BY <1>1 DEF Responses, PageStates
<1> HIDE DEF shown
<1>4. QED BY <1>1, <1>2, <1>3 DEF PageStates

\* A page has one live message on the wire at most.
LEMMA OneLive ==
    ASSUME SubmissionInv, LoadingInv, NEW m \in wire, Live(m), NEW n \in wire, Live(n), SamePage(m, n),
           TypeInv
    PROVE  m = n
<1>1. m.id <= n.id /\ n.id <= m.id
  BY DEF LoadingInv, SamePage, Traces
<1>2. m.id \in Nat /\ n.id \in Nat
  BY MessageFields DEF TypeInv, Ids
<1>3. QED BY <1>1, <1>2 DEF SubmissionInv

\* What TypeInv says of the page a message is for, and of pages in general.
LEMMA PageFields ==
    ASSUME TypeInv, NEW p \in Pages
    PROVE  /\ pages[p] \in PageStates
           /\ pages[p].load \in 1..MaxLoads /\ pages[p].loading \in BOOLEAN
           /\ pages[p].messages \in Seq({"user", "answer", "error"})
           /\ pages[p].conversation \in Ids /\ pages[p].topic \in Topics \cup {NoTopic}
BY DEF TypeInv, PageStates

\* A page on which turns alternate.
Turns(page) ==
    /\ \A i \in DOMAIN page.messages : page.messages[i] = "user" <=> i % 2 = 1
    /\ page.loading <=> Len(page.messages) % 2 = 1

LEMMA TurnsAreOfPages == TypeInv => (TurnsAlternate <=> \A p \in Pages : Turns(pages[p]))
<1> SUFFICES ASSUME TypeInv PROVE TurnsAlternate <=> \A p \in Pages : Turns(pages[p])
  OBVIOUS
<1>1. \A p \in Pages : /\ pages[p].load \in 1..MaxLoads /\ pages[p].conversation \in Ids
                       /\ pages[p].topic \in Topics \cup {NoTopic}
  BY PageFields
<1>2. QED BY <1>1, Zenon DEF TurnsAlternate, Turns

\* The same of the next state.
LEMMA TurnsOfNextPages == TypeInv' /\ (\A p \in Pages : Turns(pages'[p])) => TurnsAlternate'
<1> SUFFICES ASSUME TypeInv', \A p \in Pages : Turns(pages'[p]) PROVE TurnsAlternate'
  OBVIOUS
<1>1. \A p \in Pages : /\ pages'[p].load \in 1..MaxLoads /\ pages'[p].conversation \in Ids
                       /\ pages'[p].topic \in Topics \cup {NoTopic}
  BY DEF TypeInv, PageStates
<1>2. QED BY <1>1, Zenon DEF TurnsAlternate, Turns

\* No messages: nothing is open.
LEMMA NoTurns ==
    ASSUME NEW page, page.messages = <<>>, page.loading = FALSE
    PROVE  Turns(page)
<1>1. Len(<<>>) % 2 # 1
  OBVIOUS
<1>2. QED BY <1>1 DEF Turns

LEMMA InitInv == Init => IInv
<1> SUFFICES ASSUME Init PROVE IInv
  OBVIOUS
<1> USE DEF Init
<1>1. Fresh(1) \in PageStates /\ Fresh(1).load = 1 /\ Fresh(1).messages = <<>>
      /\ Fresh(1).loading = FALSE /\ Fresh(1).conversation = None /\ Fresh(1).topic = NoTopic
  BY ConversationAssumption DEF Fresh, PageStates, Ids, None
<1>2. \A p \in Pages : pages[p] = Fresh(1)
  OBVIOUS
<1>3. TypeInv
  BY <1>1, ConversationAssumption DEF TypeInv, Ids, None
<1>4. TurnsAlternate
  BY <1>1, <1>2, <1>3, NoTurns, TurnsAreOfPages
<1>5. SubmissionInv /\ LoadingInv
  BY <1>1, <1>2 DEF SubmissionInv, LoadingInv, Traces
<1>6. ConversationInv /\ ContextInv /\ TopicInv /\ CookieInv
  BY <1>1, <1>2 DEF ConversationInv, ContextInv, TopicInv, FromLatest, CookieInv
<1>7. QED BY <1>3, <1>4, <1>5, <1>6 DEF IInv

-------------------------------------------------------------------------------
(***************************************************************************)
(* Submitting and reloading.                                               *)
(***************************************************************************)

\* The request of a submission carries what the page holds.
LEMMA SubmitInv == ASSUME NEW p \in Pages PROVE IInv /\ Submit(p) => IInv'
<1> SUFFICES ASSUME TypeInv, TurnsAlternate, SubmissionInv, LoadingInv, ConversationInv,
                    ContextInv, TopicInv, CookieInv, Submit(p)
             PROVE  IInv'
  BY DEF IInv
<1>0. PICK new : new = [what |-> "request", id |-> asked + 1, page |-> p, load |-> pages[p].load,
                      session |-> cookie, conversation |-> pages[p].conversation,
                      topic |-> IF Len(pages[p].messages) >= 2 THEN pages[p].topic ELSE NoTopic,
                      history |-> Len(pages[p].messages) > 0, connected |-> TRUE]
  OBVIOUS
<1> DEFINE turned == Append(pages[p].messages, "user")
<1>1. /\ asked \in Nat /\ asked + 1 \in Ids /\ asked' = asked + 1 /\ ~pages[p].loading
      /\ UNCHANGED <<cookie, rows, delivered>>
      /\ wire' = wire \cup {new}
      /\ pages' = [pages EXCEPT ![p].loading = TRUE, ![p].messages = turned]
  BY <1>0, ConversationAssumption DEF Submit, TypeInv, Ids
<1>2. /\ new \in Requests /\ new.what = "request" /\ new.id = asked + 1 /\ new.page = p
      /\ new.load = pages[p].load /\ new.conversation = pages[p].conversation
      /\ new.topic \in {pages[p].topic, NoTopic} /\ new.connected
  BY <1>0, <1>1, PageFields DEF Requests, TypeInv
<1>3. /\ turned \in Seq({"user", "answer", "error"})
      /\ \A i \in DOMAIN turned : turned[i] = "user" <=> i % 2 = 1
      /\ Len(turned) % 2 = 1
  <2>1. Turns(pages[p]) /\ Len(pages[p].messages) \in Nat
    BY TurnsAreOfPages, PageFields
  <2>2. Len(pages[p].messages) % 2 = 0
    <3>1. Len(pages[p].messages) % 2 # 1
      BY <1>1, <2>1 DEF Turns
    <3>2. \A n \in Nat : n % 2 # 1 => n % 2 = 0
      OBVIOUS
    <3>3. QED BY <2>1, <3>1, <3>2
  <2>3. \A i \in DOMAIN pages[p].messages : pages[p].messages[i] = "user" <=> i % 2 = 1
    BY <2>1 DEF Turns
  <2>4. QED BY <2>2, <2>3, AppendTurn, PageFields
<1> HIDE DEF turned
<1>4. /\ pages' \in [Pages -> PageStates]
      /\ pages'[p].load = pages[p].load /\ pages'[p].loading /\ pages'[p].messages = turned
      /\ pages'[p].conversation = pages[p].conversation /\ pages'[p].topic = pages[p].topic
      /\ \A q \in Pages \ {p} : pages'[q] = pages[q]
  BY <1>1, <1>3 DEF TypeInv, PageStates
<1>5. \A q \in Pages : /\ pages'[q].load = pages[q].load
                       /\ pages'[q].conversation = pages[q].conversation
                       /\ pages'[q].topic = pages[q].topic
  BY <1>4
<1>6. \A m \in wire \cup rows \cup delivered :
          m.page \in Pages /\ m.id \in Nat /\ m.id <= asked /\ m.load <= pages[m.page].load
  BY <1>1, MessageFields DEF TypeInv, SubmissionInv, Traces, Rows
<1>7. \A m \in wire : LiveOn(m, pages') <=> LiveOn(m, pages)
  BY <1>5, <1>6 DEF LiveOn
<1>8. \A m \in wire : LiveOn(m, pages) => m.page # p
  BY <1>1, <1>6 DEF LoadingInv, Live
<1>9. TypeInv'
  BY <1>1, <1>2, <1>4 DEF TypeInv
<1>10. TurnsAlternate'
  <2>1. Turns(pages'[p])
    BY <1>3, <1>4 DEF Turns
  <2>2. \A q \in Pages : Turns(pages'[q])
    BY <1>4, <2>1, TurnsAreOfPages
  <2>3. QED BY <1>9, <2>2, TurnsOfNextPages
<1>11. SubmissionInv'
  <2>1. \A x \in Traces' : x.id \in 1..asked' /\ x.load <= pages'[x.page].load
    <3>1. \A x \in Traces' : x = new \/ x \in Traces
      BY <1>1 DEF Traces
    <3>2. new.id \in 1..asked' /\ new.load <= pages'[new.page].load
      <4>1. asked \in Nat /\ asked' = asked + 1 /\ pages[p].load \in Nat
        BY <1>1, PageFields
      <4>2. pages'[new.page].load = pages[p].load
        BY <1>2, <1>4
      <4>3. QED BY <1>2, <4>1, <4>2
    <3>3. \A x \in Traces : x.id \in 1..asked /\ x.load <= pages[x.page].load /\ x.page \in Pages
      BY <1>6 DEF Traces, SubmissionInv
    <3>4. \A x \in Traces : x.id \in 1..asked' /\ x.load <= pages'[x.page].load
      <4>1. asked \in Nat /\ asked' = asked + 1
        BY <1>1
      <4>2. QED BY <1>5, <3>3, <4>1
    <3>5. QED BY <3>1, <3>2, <3>4
  <2>2. \A x \in wire \cup rows : x.id # new.id
    BY <1>1, <1>2, <1>6
  <2>3. \A m, n \in wire' : m.id = n.id => m = n
    BY <1>1, <2>2, Zenon DEF SubmissionInv
  <2>4. \A m \in wire', r \in rows' : m.what = "request" => m.id # r.id
    BY <1>1, <2>2, Zenon DEF SubmissionInv
  <2>5. QED BY <1>1, <2>1, <2>3, <2>4 DEF SubmissionInv
<1>12. LoadingInv'
  <2>1. ASSUME NEW m \in wire', LiveOn(m, pages')
        PROVE  /\ pages'[m.page].loading
               /\ \A x \in Traces' : SamePage(x, m) => x.id <= m.id
    <3>0. \A x \in Traces' : x = new \/ (x \in Traces /\ x.id <= asked /\ x.id \in Nat)
      BY <1>1, <1>6 DEF Traces
    <3>1. CASE m = new
      BY <1>1, <1>2, <1>4, <3>0, <3>1
    <3>2. CASE m \in wire
      <4>1. LiveOn(m, pages) /\ m.page # p /\ m.page \in Pages
        BY <1>6, <1>7, <1>8, <2>1, <3>2
      <4>2. pages[m.page].loading /\ \A x \in Traces : SamePage(x, m) => x.id <= m.id
        BY <4>1, <3>2 DEF LoadingInv, Live
      <4>3. QED BY <1>2, <1>4, <3>0, <4>1, <4>2 DEF SamePage
    <3>3. QED BY <1>1, <2>1, <3>1, <3>2
  <2>2. ASSUME NEW q \in Pages, pages'[q].loading
        PROVE  \E m \in wire' : LiveOn(m, pages') /\ m.page = q
    <3>1. CASE q = p
      BY <1>1, <1>2, <1>4, <3>1 DEF LiveOn
    <3>2. CASE q # p
      BY <1>1, <1>4, <1>7, <2>2, <3>2 DEF LoadingInv, Live
    <3>3. QED BY <3>1, <3>2
  <2>3. QED BY <2>1, <2>2 DEF LoadingInv, Live
<1>13. ConversationInv'
  BY <1>1, <1>2, <1>5 DEF ConversationInv
<1>14. ContextInv'
  <2>1. ASSUME NEW m \in wire', LiveOn(m, pages'), m.what \in {"request", "answer"}
        PROVE  /\ m.what = "request" => m.conversation = pages'[m.page].conversation
               /\ m.what = "answer" => /\ m.conversation # None
                                       /\ pages'[m.page].conversation \in {None, m.conversation}
    <3>1. CASE m = new
      BY <1>2, <1>4, <3>1
    <3>2. CASE m \in wire
      BY <1>5, <1>6, <1>7, <2>1, <3>2 DEF ContextInv, Live
    <3>3. QED BY <1>1, <2>1, <3>1, <3>2
  <2>2. \A d \in delivered' :
            d.load = pages'[d.page].load => /\ d.conversation = pages'[d.page].conversation
                                            /\ d.conversation # None
    BY <1>1, <1>5, <1>6 DEF ContextInv
  <2>3. QED BY <2>1, <2>2 DEF ContextInv, Live
<1>15. TopicInv'
  <2>1. \A q \in Pages : Earlier(delivered, asked + 2, q, pages[q].load)
                             = Earlier(delivered, asked + 1, q, pages[q].load)
    BY <1>1, <1>6 DEF Earlier
  <2>2. FromLatest(new.topic, delivered, new.id, new.page, new.load)
    BY <1>2 DEF TopicInv, FromLatest
  <2>3. \A q \in Pages : FromLatest(pages[q].topic, delivered, asked + 2, q, pages[q].load)
    BY <2>1 DEF TopicInv, FromLatest
  <2>4. asked' + 1 = asked + 2
    BY <1>1
  <2>5. QED BY <1>1, <1>5, <2>2, <2>3, <2>4 DEF TopicInv
<1>16. CookieInv'
  BY <1>1, <1>2 DEF CookieInv
<1>17. QED BY <1>9, <1>10, <1>11, <1>12, <1>13, <1>14, <1>15, <1>16 DEF IInv

\* After a reload nothing on its way is for the page any more.
LEMMA ReloadInv == ASSUME NEW p \in Pages PROVE IInv /\ Reload(p) => IInv'
<1> SUFFICES ASSUME TypeInv, TurnsAlternate, SubmissionInv, LoadingInv, ConversationInv,
                    ContextInv, TopicInv, CookieInv, Reload(p)
             PROVE  IInv'
  BY DEF IInv
<1>1. /\ UNCHANGED <<cookie, wire, asked, rows, delivered>>
      /\ pages[p].load + 1 \in 1..MaxLoads /\ pages[p].load \in Nat
      /\ pages' = [pages EXCEPT ![p] = Fresh(pages[p].load + 1)]
  BY PageFields, ConversationAssumption DEF Reload
<1>2. /\ Fresh(pages[p].load + 1) \in PageStates /\ Fresh(pages[p].load + 1).messages = <<>>
      /\ Fresh(pages[p].load + 1).load = pages[p].load + 1
      /\ Fresh(pages[p].load + 1).loading = FALSE
      /\ Fresh(pages[p].load + 1).conversation = None /\ Fresh(pages[p].load + 1).topic = NoTopic
  BY <1>1, ConversationAssumption DEF Fresh, PageStates, Ids, None
<1>3. /\ pages' \in [Pages -> PageStates] /\ pages'[p].load = pages[p].load + 1
      /\ pages'[p].loading = FALSE /\ pages'[p].messages = <<>>
      /\ pages'[p].conversation = None /\ pages'[p].topic = NoTopic
      /\ \A q \in Pages \ {p} : pages'[q] = pages[q]
  BY <1>1, <1>2 DEF TypeInv
<1>4. \A x \in Traces : /\ x.page \in Pages /\ x.load <= pages[x.page].load
                        /\ x.load \in Nat /\ x.id \in 1..asked
  BY MessageFields DEF TypeInv, SubmissionInv, Traces, Rows
<1>5. \A x \in Traces : x.load = pages'[x.page].load => x.page # p /\ pages'[x.page] = pages[x.page]
  BY <1>1, <1>3, <1>4
<1>6. \A m \in wire : LiveOn(m, pages')
          => LiveOn(m, pages) /\ m.page # p /\ pages'[m.page] = pages[m.page]
  BY <1>1, <1>5 DEF LiveOn, Traces
<1>7. \A m \in wire : m.page # p /\ LiveOn(m, pages) => LiveOn(m, pages')
  BY <1>1, <1>3, <1>4 DEF LiveOn, Traces
<1>8. TypeInv'
  BY <1>1, <1>3 DEF TypeInv
<1>9. TurnsAlternate'
  <2>1. Turns(pages'[p])
    BY <1>3, NoTurns
  <2>2. \A q \in Pages : Turns(pages'[q])
    BY <1>3, <2>1, TurnsAreOfPages
  <2>3. QED BY <1>8, <2>2, TurnsOfNextPages
<1>10. SubmissionInv'
  <2>1. \A q \in Pages : pages[q].load <= pages'[q].load /\ pages[q].load \in Nat /\ pages'[q].load \in Nat
    BY <1>1, <1>3, PageFields
  <2>2. \A x \in Traces : x.load <= pages'[x.page].load
    BY <1>4, <2>1
  <2>3. QED BY <1>1, <2>2 DEF SubmissionInv, Traces
<1>11. LoadingInv'
  <2>1. ASSUME NEW m \in wire', LiveOn(m, pages')
        PROVE  /\ pages'[m.page].loading
               /\ \A x \in Traces' : SamePage(x, m) => x.id <= m.id
    BY <1>1, <1>6, <2>1 DEF LoadingInv, Live, Traces
  <2>2. ASSUME NEW q \in Pages, pages'[q].loading
        PROVE  \E m \in wire' : LiveOn(m, pages') /\ m.page = q
    BY <1>1, <1>3, <1>7, <2>2 DEF LoadingInv, Live
  <2>3. QED BY <2>1, <2>2 DEF LoadingInv, Live
<1>12. ConversationInv'
  BY <1>1, <1>3 DEF ConversationInv
<1>13. ContextInv'
  BY <1>1, <1>5, <1>6 DEF ContextInv, Traces, Live
<1>14. TopicInv'
  <2>1. FromLatest(pages'[p].topic, delivered, asked + 1, p, pages'[p].load)
    BY <1>3 DEF FromLatest
  <2>2. QED BY <1>1, <1>3, <2>1 DEF TopicInv
<1>15. CookieInv'
  BY <1>1 DEF CookieInv
<1>16. QED BY <1>8, <1>9, <1>10, <1>11, <1>12, <1>13, <1>14, <1>15 DEF IInv

-------------------------------------------------------------------------------
(***************************************************************************)
(* The server.                                                             *)
(***************************************************************************)

\* A response takes the place of its request, if somebody can still hear it;
\* an answer is logged either way.
LEMMA SendInv ==
    ASSUME NEW m \in wire, m.what = "request",
           NEW kind \in {"answer", "error"}, NEW topic \in Topics \cup {NoTopic},
           NEW session \in {NewSession(m), None},
           Send(m, Response(m, kind, topic, session)),
           NEW row, row = [id |-> m.id, page |-> m.page, load |-> m.load, session |-> SessionOf(m),
                           conversation |-> ConversationOf(m), incoming |-> m.topic],
           rows' = IF kind = "answer" THEN rows \cup {row} ELSE rows,
           UNCHANGED <<cookie, pages, asked, delivered>>
    PROVE  IInv => IInv'
<1> SUFFICES ASSUME TypeInv, TurnsAlternate, SubmissionInv, LoadingInv, ConversationInv,
                    ContextInv, TopicInv, CookieInv
             PROVE  IInv'
  BY DEF IInv
<1>0. PICK r : r = Response(m, kind, topic, session)
  OBVIOUS
<1>1. /\ m \in Requests /\ m.page \in Pages /\ m.id \in Nat /\ m.id \in 1..asked /\ m.load \in 1..MaxLoads
      /\ m.load <= pages[m.page].load /\ asked \in Ids
  BY MessageFields DEF TypeInv, SubmissionInv, Traces, Ids
<1>2. /\ r \in Responses /\ r.what = kind /\ r.id = m.id /\ r.page = m.page /\ r.load = m.load
      /\ r.conversation = ConversationOf(m) /\ (r.session # None => r.sent = None)
      /\ ConversationOf(m) \in Ids \ {None} /\ ConversationOf(m) \in {m.id, m.conversation}
      /\ (m.conversation # None => ConversationOf(m) = m.conversation)
      /\ SessionOf(m) \in Ids
  BY <1>0, <1>1, ResponseFields, ConversationAssumption
<1>3. /\ row \in Rows /\ row.id = m.id /\ row.page = m.page /\ row.load = m.load
      /\ row.conversation = ConversationOf(m) /\ row.incoming = m.topic
  BY <1>1, <1>2 DEF Requests, Rows
<1>4. /\ \A n \in wire' : (n \in wire /\ n # m) \/ (n = r /\ m.connected)
      /\ \A n \in wire : n # m => n \in wire'
      /\ m.connected => r \in wire'
  BY <1>0 DEF Send
<1>5. /\ rows \subseteq rows' /\ (kind = "answer" => row \in rows')
      /\ \A s \in rows' : s \in rows \/ s = row
  OBVIOUS
<1>6. \A x \in Traces' : x \in Traces \/ x = r \/ x = row
  BY <1>4, <1>5 DEF Traces
<1>7. m \in Traces
  BY DEF Traces
<1>8. LiveOn(r, pages) /\ m.connected => LiveOn(m, pages)
  BY <1>2 DEF LiveOn
<1>9. LiveOn(m, pages) => LiveOn(r, pages) /\ m.connected
  BY <1>2 DEF LiveOn
<1>10. TypeInv'
  <2>1. wire' \subseteq Requests \cup Responses
    BY <1>2, <1>4, Zenon DEF TypeInv
  <2>2. rows' \subseteq Rows
    BY <1>3, <1>5 DEF TypeInv
  <2>3. QED BY <2>1, <2>2, Zenon DEF TypeInv
<1>11. TurnsAlternate'
  BY Zenon DEF TurnsAlternate
<1>12. SubmissionInv'
  <2>1. \A x \in Traces' : x.id \in 1..asked /\ x.load <= pages[x.page].load
    BY <1>1, <1>2, <1>3, <1>6 DEF SubmissionInv
  <2>2. \A n \in wire : n # m => n.id # m.id
    BY DEF SubmissionInv
  <2>3. \A s \in rows : s.id # m.id
    BY DEF SubmissionInv
  <2>4. \A n, o \in wire' : n.id = o.id => n = o
    BY <1>2, <1>4, <2>2, Zenon DEF SubmissionInv
  <2>5. \A s, t \in rows' : s.id = t.id => s = t
    <3>1. \A s \in rows' : s \in rows \/ s = row
      BY <1>5
    <3>2. row.id = m.id
      BY <1>3
    <3>3. \A s, t \in rows : s.id = t.id => s = t
      BY DEF SubmissionInv
    <3>4. QED BY <2>3, <3>1, <3>2, <3>3, Zenon
  <2>6. \A n \in wire', s \in rows' : n.what = "request" => n.id # s.id
    <3>1. \A n \in wire' : n.what = "request" => n \in wire /\ n # m
      BY <1>2, <1>4
    <3>2. QED BY <1>3, <1>5, <2>2, <3>1, Zenon DEF SubmissionInv
  <2>7. QED BY <2>1, <2>4, <2>5, <2>6 DEF SubmissionInv
<1>13. LoadingInv'
  <2>1. ASSUME NEW n \in wire', LiveOn(n, pages)
        PROVE  pages[n.page].loading /\ \A x \in Traces' : SamePage(x, n) => x.id <= n.id
    <3>1. PICK o \in wire : LiveOn(o, pages) /\ o.id = n.id /\ o.page = n.page /\ o.load = n.load
      BY <1>2, <1>4, <1>8, <2>1
    <3>2. pages[o.page].loading /\ \A x \in Traces : SamePage(x, o) => x.id <= o.id
      BY <3>1 DEF LoadingInv, Live
    <3>3. QED BY <1>2, <1>3, <1>6, <1>7, <3>1, <3>2 DEF SamePage
  <2>2. ASSUME NEW q \in Pages, pages[q].loading
        PROVE  \E n \in wire' : LiveOn(n, pages) /\ n.page = q
    <3>1. PICK n \in wire : LiveOn(n, pages) /\ n.page = q
      BY <2>2 DEF LoadingInv, Live
    <3>2. QED BY <1>2, <1>4, <1>9, <3>1
  <2>3. QED BY <2>1, <2>2 DEF LoadingInv, Live
<1>14. ConversationInv'
  <2>1. \A k, page, load : OwnsConversation(rows, k, page, load) => OwnsConversation(rows', k, page, load)
    BY <1>5 DEF OwnsConversation
  <2>2. kind = "answer" => OwnsConversation(rows', ConversationOf(m), m.page, m.load)
    <3>1. CASE m.conversation # None
      BY <1>2, <2>1, <3>1 DEF ConversationInv
    <3>2. CASE m.conversation = None
      BY <1>2, <1>3, <1>5, <3>2 DEF OwnsConversation
    <3>3. QED BY <3>1, <3>2
  <2>3. \A s \in rows' : OwnsConversation(rows', s.conversation, s.page, s.load)
    <3>1. CASE kind = "answer"
      BY <1>3, <1>5, <2>1, <2>2, <3>1 DEF ConversationInv
    <3>2. CASE kind = "error"
      BY <2>1, <3>2 DEF ConversationInv
    <3>3. QED BY <3>1, <3>2
  <2>4. \A n \in wire' : n.what = "request" /\ n.conversation # None
            => OwnsConversation(rows', n.conversation, n.page, n.load)
    BY <1>2, <1>4, <2>1 DEF ConversationInv
  <2>5. \A n \in wire' : n.what = "answer" => OwnsConversation(rows', n.conversation, n.page, n.load)
    BY <1>2, <1>4, <2>1, <2>2 DEF ConversationInv
  <2>6. QED BY <2>1, <2>3, <2>4, <2>5 DEF ConversationInv
<1>15. ContextInv'
  <2>1. ASSUME NEW n \in wire', LiveOn(n, pages), n.what \in {"request", "answer"}
        PROVE  /\ n.what = "request" => n.conversation = pages[n.page].conversation
               /\ n.what = "answer" => /\ n.conversation # None
                                       /\ pages[n.page].conversation \in {None, n.conversation}
    <3>1. CASE n \in wire
      BY <2>1, <3>1 DEF ContextInv, Live
    <3>2. CASE n = r /\ m.connected
      <4>1. m.conversation = pages[m.page].conversation
        BY <1>8, <2>1, <3>2 DEF ContextInv, Live
      <4>2. QED BY <1>2, <3>2, <4>1
    <3>3. QED BY <1>4, <3>1, <3>2
  <2>2. QED BY <2>1 DEF ContextInv, Live
<1>16. TopicInv'
  BY <1>2, <1>3, <1>4, <1>5 DEF TopicInv
<1>17. CookieInv'
  BY <1>2, <1>4 DEF CookieInv
<1>18. QED BY <1>10, <1>11, <1>12, <1>13, <1>14, <1>15, <1>16, <1>17 DEF IInv

LEMMA AnswerInv == ASSUME NEW m \in wire PROVE IInv /\ Answer(m) => IInv'
<1> SUFFICES ASSUME IInv, Answer(m) PROVE IInv'
  OBVIOUS
<1>1. PICK topic \in ResolvedTopics(m) :
        /\ Send(m, Response(m, "answer", topic, NewSession(m)))
        /\ rows' = rows \cup {[id |-> m.id, page |-> m.page, load |-> m.load,
                               session |-> SessionOf(m), conversation |-> ConversationOf(m),
                               incoming |-> m.topic]}
  BY DEF Answer
<1>2. topic \in Topics \cup {NoTopic}
  BY MessageFields DEF IInv, TypeInv, ResolvedTopics
<1>3. m.what = "request" /\ UNCHANGED <<cookie, pages, asked, delivered>>
  BY DEF Answer
<1> DEFINE row == [id |-> m.id, page |-> m.page, load |-> m.load, session |-> SessionOf(m),
                   conversation |-> ConversationOf(m), incoming |-> m.topic]
<1>4. rows' = IF "answer" = "answer" THEN rows \cup {row} ELSE rows
  BY <1>1
<1>5. NewSession(m) \in {NewSession(m), None}
  OBVIOUS
<1> HIDE DEF row
<1>6. PICK logged : logged = row
  OBVIOUS
<1>7. QED BY <1>1, <1>2, <1>3, <1>4, <1>5, <1>6, SendInv DEF row

LEMMA FailInv == ASSUME NEW m \in wire PROVE IInv /\ Fail(m) => IInv'
<1> SUFFICES ASSUME IInv, Fail(m) PROVE IInv'
  OBVIOUS
<1>1. PICK session \in {NewSession(m), None} : Send(m, Response(m, "error", NoTopic, session))
  BY DEF Fail
<1>2. m.what = "request" /\ UNCHANGED <<cookie, pages, asked, rows, delivered>>
  BY DEF Fail
<1>3. PICK row : row = [id |-> m.id, page |-> m.page, load |-> m.load, session |-> SessionOf(m),
                        conversation |-> ConversationOf(m), incoming |-> m.topic]
  OBVIOUS
<1>4. rows' = IF "error" = "answer" THEN rows \cup {row} ELSE rows
  BY <1>2
<1>5. QED BY <1>1, <1>2, <1>3, <1>4, SendInv

-------------------------------------------------------------------------------
(***************************************************************************)
(* The page.                                                               *)
(***************************************************************************)

\* A live message leaves the wire and its page stops loading; any other one
\* leaves the wire and no page hears of it.  rest is what a lost connection
\* leaves of a request.
LEMMA SettleInv ==
    ASSUME IInv, NEW m \in wire, m.what = "request" => m.connected,
           NEW rest, \A n \in rest : /\ n \in Requests /\ m \in Requests /\ ~n.connected
                                     /\ n.id = m.id /\ n.page = m.page /\ n.load = m.load
                                     /\ n.conversation = m.conversation /\ n.topic = m.topic,
           \A n, o \in rest : n = o,
           wire' = (wire \ {m}) \cup rest,
           NEW kind \in {"answer", "error"},
           ~Waiting(m) => pages' = pages,
           Waiting(m) => /\ pages' \in [Pages -> PageStates]
                         /\ \A q \in Pages \ {m.page} : pages'[q] = pages[q]
                         /\ ~pages'[m.page].loading /\ pages'[m.page].load = m.load
                         /\ pages'[m.page].messages = Append(pages[m.page].messages, kind),
           cookie' \in Ids, UNCHANGED <<asked, rows>>,
           delivered \subseteq delivered', delivered' \subseteq delivered \cup {m},
           delivered' \subseteq Responses
    PROVE  /\ TypeInv' /\ TurnsAlternate' /\ SubmissionInv' /\ LoadingInv' /\ CookieInv'
           /\ \A n \in wire' : LiveOn(n, pages') => /\ n \in wire /\ LiveOn(n, pages)
                                                    /\ pages'[n.page] = pages[n.page]
           /\ \A x \in Traces : x.page \in Pages /\ x.id \in 1..asked
                                 /\ pages'[x.page].load = pages[x.page].load
           /\ \A x \in Traces : Waiting(m) /\ SamePage(x, m) => x.id <= m.id
<1> USE DEF IInv
<1>1. /\ m.page \in Pages /\ m.id \in Nat /\ m \in Requests \cup Responses /\ m \in Traces
      /\ LiveOn(m, pages) <=> Waiting(m)
      /\ pages \in [Pages -> PageStates]
  <2>1. m.page \in Pages /\ m.id \in Nat /\ m \in Requests \cup Responses /\ m \in Traces
    BY MessageFields DEF TypeInv, Traces, Ids
  <2>2. LiveOn(m, pages) <=> Waiting(m)
    BY DEF LiveOn, Waiting
  <2>3. QED BY <2>1, <2>2 DEF TypeInv
<1>2. \A x \in Traces : x.page \in Pages /\ x.id \in 1..asked /\ x.load <= pages[x.page].load
  BY MessageFields DEF TypeInv, SubmissionInv, Traces, Rows
<1>3. \A q \in Pages : pages'[q].load = pages[q].load
  BY <1>1 DEF Waiting
<1>4. \A n \in rest : ~LiveOn(n, pages')
  BY DEF LiveOn, Requests
<1>5. \A n \in wire' : n \in rest \/ (n \in wire /\ n # m)
  OBVIOUS
<1>6. \A n \in wire : LiveOn(n, pages') <=> LiveOn(n, pages)
  BY <1>2, <1>3 DEF LiveOn, Traces
<1>7. ASSUME NEW n \in wire, n # m, LiveOn(n, pages), Waiting(m) PROVE n.page # m.page
  <2>1. n.page = m.page => SamePage(m, n)
    BY <1>7 DEF SamePage, LiveOn, Waiting
  <2>2. QED BY <1>1, <1>7, <2>1, OneLive DEF Live
<1>8. ASSUME NEW n \in wire', LiveOn(n, pages')
      PROVE  n \in wire /\ n # m /\ LiveOn(n, pages) /\ pages'[n.page] = pages[n.page]
  <2>1. n \in wire /\ n # m /\ LiveOn(n, pages) /\ n.page \in Pages
    BY <1>2, <1>4, <1>5, <1>6, <1>8 DEF Traces
  <2>2. QED BY <1>7, <2>1
<1>9. TypeInv'
  <2>1. pages' \in [Pages -> PageStates]
    BY <1>1
  <2>2. wire' \subseteq Requests \cup Responses
    BY DEF TypeInv
  <2>3. QED BY <2>1, <2>2 DEF TypeInv
<1>10. TurnsAlternate'
  <2>1. CASE ~Waiting(m)
    BY <2>1 DEF TurnsAlternate
  <2>2. CASE Waiting(m)
    <3>1. pages[m.page].loading
      BY <1>1, <2>2 DEF LoadingInv, Live
    <3>2. Turns(pages[m.page]) /\ pages[m.page].messages \in Seq({"user", "answer", "error"})
      BY <1>1, TurnsAreOfPages, PageFields
    <3>3. /\ \A i \in DOMAIN pages[m.page].messages :
                 pages[m.page].messages[i] = "user" <=> i % 2 = 1
          /\ Len(pages[m.page].messages) % 2 = 1
      BY <3>1, <3>2 DEF Turns
    <3>4. pages'[m.page].messages = Append(pages[m.page].messages, kind) /\ ~pages'[m.page].loading
      BY <2>2
    <3>5. /\ \A i \in DOMAIN pages'[m.page].messages :
                 pages'[m.page].messages[i] = "user" <=> i % 2 = 1
          /\ ~(Len(pages'[m.page].messages) % 2 = 1)
      <4>1. pages[m.page].messages \in Seq({"user", "answer", "error"})
        BY <3>2
      <4>2. /\ \A i \in DOMAIN Append(pages[m.page].messages, kind) :
                   Append(pages[m.page].messages, kind)[i] = "user" <=> i % 2 = 1
            /\ ~(Len(Append(pages[m.page].messages, kind)) % 2 = 1)
        BY <3>3, <4>1, ReplyTurn
      <4>3. QED BY <3>4, <4>2, Zenon
    <3>6. Turns(pages'[m.page])
      BY <3>4, <3>5, Zenon DEF Turns
    <3>7. \A q \in Pages : Turns(pages'[q])
      BY <2>2, <3>6, TurnsAreOfPages
    <3>8. QED BY <1>9, <3>7, TurnsOfNextPages
  <2>3. QED BY <2>1, <2>2
<1>11. \A x \in Traces' : x \in Traces \/ x \in rest
  BY <1>1 DEF Traces
<1>12. SubmissionInv'
  <2>1. \A x \in Traces' : x.id \in 1..asked' /\ x.load <= pages'[x.page].load
    BY <1>1, <1>2, <1>3, <1>11
  <2>2. \A n, o \in wire' : n.id = o.id => n = o
    BY <1>5 DEF SubmissionInv
  <2>3. \A n \in wire', s \in rows' : n.what = "request" => n.id # s.id
    <3>1. m \in Requests => m.what = "request"
      BY DEF Requests
    <3>2. QED BY <1>5, <3>1 DEF SubmissionInv
  <2>4. QED BY <2>1, <2>2, <2>3 DEF SubmissionInv
<1>13. LoadingInv'
  <2>1. ASSUME NEW n \in wire', LiveOn(n, pages')
        PROVE  pages'[n.page].loading /\ \A x \in Traces' : SamePage(x, n) => x.id <= n.id
    <3>1. pages[n.page].loading /\ \A x \in Traces : SamePage(x, n) => x.id <= n.id
      BY <1>8, <2>1 DEF LoadingInv, Live
    <3>2. QED BY <1>1, <1>8, <1>11, <2>1, <3>1 DEF SamePage
  <2>2. ASSUME NEW q \in Pages, pages'[q].loading
        PROVE  \E n \in wire' : LiveOn(n, pages') /\ n.page = q
    <3>1. pages[q].loading /\ (Waiting(m) => q # m.page)
      BY <2>2
    <3>2. PICK n \in wire : LiveOn(n, pages) /\ n.page = q
      BY <3>1 DEF LoadingInv, Live
    <3>3. n # m
      BY <1>1, <3>1, <3>2
    <3>4. QED BY <1>6, <3>2, <3>3
  <2>3. QED BY <2>1, <2>2 DEF LoadingInv, Live
<1>14. CookieInv'
  <2>1. \A n \in rest : n.what = "request"
    BY DEF Requests
  <2>2. QED BY <1>5, <2>1 DEF CookieInv
<1>15. \A x \in Traces : Waiting(m) /\ SamePage(x, m) => x.id <= m.id
  BY <1>1 DEF LoadingInv, Live
<1>16. QED BY <1>2, <1>3, <1>8, <1>9, <1>10, <1>12, <1>13, <1>14, <1>15

\* The answer keeps its page's conversation and topic up to date.
LEMMA DeliverInv == ASSUME NEW m \in wire PROVE IInv /\ Deliver(m) => IInv'
<1> SUFFICES ASSUME IInv, Deliver(m) PROVE IInv'
  OBVIOUS
<1>0. /\ m.what \in {"answer", "error"} /\ wire' = wire \ {m}
      /\ cookie' = IF m.session # None THEN m.session ELSE cookie
      /\ UNCHANGED <<asked, rows>>
      /\ ~Waiting(m) => pages' = pages /\ delivered' = delivered
      /\ m.what = "error" => delivered' = delivered
      /\ delivered \subseteq delivered' /\ delivered' \subseteq delivered \cup {m}
  BY DEF Deliver
<1>1. /\ TypeInv /\ TurnsAlternate /\ SubmissionInv /\ LoadingInv /\ ConversationInv
      /\ ContextInv /\ TopicInv /\ CookieInv
  BY DEF IInv
<1>2. /\ m.page \in Pages /\ m.id \in Nat /\ m \in Traces /\ m.session \in Ids
      /\ m \in Responses /\ cookie \in Ids /\ m.what # "request"
      /\ pages[m.page] \in PageStates
  BY <1>0, <1>1, MessageFields, PageFields DEF TypeInv, Traces, Ids
<1> DEFINE kind == m.what
           old == pages[m.page]
           page == pages'[m.page]
<1>3. ASSUME Waiting(m)
      PROVE  /\ pages' \in [Pages -> PageStates]
             /\ \A q \in Pages \ {m.page} : pages'[q] = pages[q]
             /\ ~page.loading /\ page.load = m.load /\ page.messages = Append(old.messages, kind)
             /\ page.conversation = IF kind = "answer" THEN m.conversation ELSE old.conversation
             /\ page.topic = IF kind = "answer" /\ m.topic # NoTopic THEN m.topic ELSE old.topic
             /\ delivered' = IF kind = "answer" THEN delivered \cup {m} ELSE delivered
  <2>1. pages' = [pages EXCEPT ![m.page] = IF m.what = "answer" THEN AnswerBubble(old, m)
                                           ELSE ErrorBubble(old)]
    BY <1>3 DEF Deliver
  <2>2. pages \in [Pages -> PageStates] /\ old.load = m.load
    BY <1>1, <1>3 DEF TypeInv, Waiting
  <2>3. CASE kind = "answer"
    <3>1. page = AnswerBubble(old, m) /\ \A q \in Pages \ {m.page} : pages'[q] = pages[q]
      BY <1>2, <2>1, <2>2, <2>3
    <3>2. pages' \in [Pages -> PageStates]
      BY <1>2, <2>1, <2>2, <2>3, AnswerBubbleFields
    <3>3. delivered' = delivered \cup {m}
      BY <1>3, <2>3 DEF Deliver
    <3>4. QED BY <1>2, <2>2, <2>3, <3>1, <3>2, <3>3, AnswerBubbleFields
  <2>4. CASE kind = "error"
    <3>1. page = AddBubble(old, "error") /\ \A q \in Pages \ {m.page} : pages'[q] = pages[q]
      BY <1>2, <2>1, <2>2, <2>4 DEF ErrorBubble
    <3>2. pages' \in [Pages -> PageStates]
      BY <1>2, <2>1, <2>2, <2>4, AddBubbleFields DEF ErrorBubble
    <3>3. QED BY <1>0, <1>2, <2>2, <2>4, <3>1, <3>2, AddBubbleFields
  <2>5. QED BY <1>0, <2>3, <2>4
<1>4. cookie' \in Ids
  BY <1>0, <1>2
<1>5. delivered' \subseteq Responses
  BY <1>0, <1>1, <1>2 DEF TypeInv
<1> HIDE DEF kind, old, page
<1>6. /\ TypeInv' /\ TurnsAlternate' /\ SubmissionInv' /\ LoadingInv' /\ CookieInv'
      /\ \A n \in wire' : LiveOn(n, pages') => /\ n \in wire /\ LiveOn(n, pages)
                                               /\ pages'[n.page] = pages[n.page]
      /\ \A x \in Traces : x.page \in Pages /\ x.id \in 1..asked
                            /\ pages'[x.page].load = pages[x.page].load
      /\ \A x \in Traces : Waiting(m) /\ SamePage(x, m) => x.id <= m.id
  <2>1. PICK rest : rest = {}
    OBVIOUS
  <2>2. PICK k \in {"answer", "error"} : k = kind
    BY <1>0 DEF kind
  <2>3. Waiting(m) => /\ pages' \in [Pages -> PageStates]
                      /\ \A q \in Pages \ {m.page} : pages'[q] = pages[q]
                      /\ ~pages'[m.page].loading /\ pages'[m.page].load = m.load
                      /\ pages'[m.page].messages = Append(pages[m.page].messages, k)
    BY <1>3, <2>2 DEF old, page
  <2>4. /\ wire' = (wire \ {m}) \cup rest
        /\ m.what = "request" => m.connected
        /\ \A n \in rest : /\ n \in Requests /\ m \in Requests /\ ~n.connected
                           /\ n.id = m.id /\ n.page = m.page /\ n.load = m.load
                           /\ n.conversation = m.conversation /\ n.topic = m.topic
        /\ \A n, o \in rest : n = o
        /\ ~Waiting(m) => pages' = pages
        /\ UNCHANGED <<asked, rows>>
        /\ delivered \subseteq delivered' /\ delivered' \subseteq delivered \cup {m}
    BY <1>0, <1>2, <2>1
  <2>5. QED BY <1>4, <1>5, <2>3, <2>4, SettleInv
<1>7. ConversationInv'
  <2>1. \A q \in Pages : pages'[q].conversation # None
            => OwnsConversation(rows, pages'[q].conversation, q, pages'[q].load)
    <3>1. CASE ~Waiting(m)
      BY <1>0, <1>1, <3>1 DEF ConversationInv
    <3>2. CASE Waiting(m)
      <4>1. old.load = m.load
        BY <3>2 DEF Waiting, old
      <4>2. page.conversation # None => OwnsConversation(rows, page.conversation, m.page, page.load)
        <5>1. CASE kind = "answer"
          BY <1>1, <1>3, <3>2, <5>1 DEF ConversationInv, kind
        <5>2. CASE kind # "answer"
          BY <1>1, <1>2, <1>3, <3>2, <4>1, <5>2 DEF ConversationInv, old
        <5>3. QED BY <5>1, <5>2
      <4>3. QED BY <1>1, <1>3, <3>2, <4>2 DEF ConversationInv, page
    <3>3. QED BY <3>1, <3>2
  <2>2. QED BY <1>0, <1>1, <2>1 DEF ConversationInv
<1>8. ContextInv'
  <2>1. ASSUME NEW n \in wire', LiveOn(n, pages'), n.what \in {"request", "answer"}
        PROVE  /\ n.what = "request" => n.conversation = pages'[n.page].conversation
               /\ n.what = "answer" => /\ n.conversation # None
                                       /\ pages'[n.page].conversation \in {None, n.conversation}
    BY <1>1, <1>6, <2>1 DEF ContextInv, Live
  <2>2. ASSUME NEW d \in delivered', d.load = pages'[d.page].load
        PROVE  d.conversation = pages'[d.page].conversation /\ d.conversation # None
    <3>1. CASE ~Waiting(m)
      BY <1>0, <1>1, <2>2, <3>1 DEF ContextInv
    <3>2. CASE Waiting(m) /\ kind = "answer"
      <4>1. m.conversation # None /\ old.conversation \in {None, m.conversation}
        BY <1>1, <1>2, <3>2 DEF ContextInv, Live, LiveOn, Waiting, kind, old
      <4>2. page.conversation = m.conversation
        BY <1>3, <3>2
      <4>3. CASE d = m
        BY <4>1, <4>2, <4>3 DEF page
      <4>4. CASE d \in delivered
        <5>1. d.page \in Pages /\ d.load = pages[d.page].load
          BY <1>6, <2>2, <4>4 DEF Traces
        <5>2. d.conversation = pages[d.page].conversation /\ d.conversation # None
          BY <1>1, <4>4, <5>1 DEF ContextInv
        <5>3. CASE d.page = m.page
          BY <4>1, <4>2, <5>2, <5>3 DEF old, page
        <5>4. CASE d.page # m.page
          BY <1>3, <3>2, <5>1, <5>2, <5>4
        <5>5. QED BY <5>3, <5>4
      <4>5. QED BY <1>0, <4>3, <4>4
    <3>3. CASE Waiting(m) /\ kind # "answer"
      <4>1. d \in delivered
        BY <1>3, <3>3
      <4>2. d.page \in Pages /\ d.load = pages[d.page].load
        BY <1>6, <2>2, <4>1 DEF Traces
      <4>3. pages'[d.page].conversation = pages[d.page].conversation
        BY <1>3, <3>3, <4>2 DEF old, page
      <4>4. QED BY <1>1, <4>1, <4>2, <4>3 DEF ContextInv
    <3>4. QED BY <3>1, <3>2, <3>3
  <2>3. QED BY <2>1, <2>2 DEF ContextInv, Live
<1>9. TopicInv'
  <2>1. CASE ~Waiting(m) \/ kind # "answer"
    <3>0. delivered' = delivered
      BY <1>0, <1>3, <2>1
    <3>1. \A q \in Pages : pages'[q].load = pages[q].load /\ pages'[q].topic = pages[q].topic
      <4>1. CASE ~Waiting(m)
        BY <1>0, <4>1
      <4>2. CASE Waiting(m) /\ kind # "answer"
        BY <1>3, <4>2 DEF Waiting, old, page
      <4>3. QED BY <2>1, <4>1, <4>2
    <3>2. QED BY <1>0, <1>1, <3>0, <3>1 DEF TopicInv
  <2>2. CASE Waiting(m) /\ kind = "answer" /\ delivered' = delivered \cup {m}
    <3>1. ASSUME NEW x \in Traces
          PROVE  Earlier(delivered', x.id, x.page, x.load) = Earlier(delivered, x.id, x.page, x.load)
      <4>1. ~(m.page = x.page /\ m.load = x.load /\ m.id < x.id)
        BY <1>2, <1>6, <2>2 DEF SamePage
      <4>2. QED BY <2>2, <4>1 DEF Earlier
    <3>2. \A n \in wire' : n.what = "request" => FromLatest(n.topic, delivered', n.id, n.page, n.load)
      BY <1>0, <1>1, <3>1 DEF TopicInv, FromLatest, Traces
    <3>3. \A r \in rows : FromLatest(r.incoming, delivered', r.id, r.page, r.load)
      BY <1>1, <3>1 DEF TopicInv, FromLatest, Traces
    <3>4. ASSUME NEW q \in Pages
          PROVE  FromLatest(pages'[q].topic, delivered', asked + 1, q, pages'[q].load)
      <4>1. CASE q # m.page
        <5>1. Earlier(delivered', asked + 1, q, pages[q].load) = Earlier(delivered, asked + 1, q, pages[q].load)
          BY <2>2, <4>1 DEF Earlier
        <5>2. pages'[q] = pages[q]
          BY <1>3, <2>2, <4>1
        <5>3. QED BY <1>1, <5>1, <5>2 DEF TopicInv, FromLatest
      <4>2. CASE q = m.page /\ m.topic = NoTopic
        <5>1. Earlier(delivered', asked + 1, q, m.load) = Earlier(delivered, asked + 1, q, m.load)
          BY <2>2, <4>2 DEF Earlier
        <5>2. pages'[q].topic = pages[q].topic /\ pages'[q].load = m.load /\ pages[q].load = m.load
          BY <1>3, <2>2, <4>2 DEF Waiting, old, page
        <5>3. QED BY <1>1, <5>1, <5>2 DEF TopicInv, FromLatest
      <4>3. CASE q = m.page /\ m.topic # NoTopic
        <5>1. pages'[q].topic = m.topic /\ pages'[q].load = m.load
          BY <1>3, <2>2, <4>3 DEF page
        <5>2. m.id \in 1..asked /\ asked \in Nat
          BY <1>1, <1>2, <1>6 DEF TypeInv, Ids
        <5>3. m \in Earlier(delivered', asked + 1, q, m.load)
          BY <2>2, <4>3, <5>2 DEF Earlier
        <5>4. \A e \in Earlier(delivered', asked + 1, q, m.load) : e.id <= m.id
          <6>1. \A e \in delivered : SamePage(e, m) => e.id <= m.id
            BY <1>6, <2>2 DEF Traces
          <6>2. QED BY <1>2, <2>2, <4>3, <6>1 DEF Earlier, SamePage
        <5>5. QED BY <5>1, <5>3, <5>4 DEF FromLatest
      <4>4. QED BY <4>1, <4>2, <4>3
    <3>5. QED BY <1>0, <3>2, <3>3, <3>4 DEF TopicInv
  <2>3. Waiting(m) /\ kind = "answer" => delivered' = delivered \cup {m}
    BY <1>3
  <2>4. QED BY <2>1, <2>2, <2>3
<1>10. QED BY <1>6, <1>7, <1>8, <1>9 DEF IInv

\* A broken connection ends the submission with an error bubble.  The request
\* it may leave behind is one nobody hears of.
LEMMA BreakInv == ASSUME NEW m \in wire PROVE IInv /\ Break(m) => IInv'
<1> SUFFICES ASSUME IInv, Break(m) PROVE IInv'
  OBVIOUS
<1>1. /\ TypeInv /\ TurnsAlternate /\ SubmissionInv /\ LoadingInv /\ ConversationInv
      /\ ContextInv /\ TopicInv /\ CookieInv
  BY DEF IInv
<1>2. /\ m.what = "request" => m.connected
      /\ UNCHANGED <<cookie, asked, rows, delivered>>
      /\ ~Waiting(m) => pages' = pages
  BY DEF Break
<1>3. PICK rest : /\ rest = {} \/ (m.what = "request" /\ rest = {[m EXCEPT !.connected = FALSE]})
                  /\ wire' = (wire \ {m}) \cup rest
  BY DEF Break
<1>4. /\ \A n \in rest : /\ n \in Requests /\ m \in Requests /\ ~n.connected
                         /\ n.id = m.id /\ n.page = m.page /\ n.load = m.load
                         /\ n.conversation = m.conversation /\ n.topic = m.topic
      /\ \A n, o \in rest : n = o
  <2>1. CASE rest = {}
    BY <2>1
  <2>2. CASE m.what = "request" /\ rest = {[m EXCEPT !.connected = FALSE]}
    <3>1. m \in Requests
      BY <1>1, <2>2, MessageFields DEF TypeInv
    <3>2. PICK n : n = [m EXCEPT !.connected = FALSE]
      OBVIOUS
    <3>3. rest = {n}
      BY <2>2, <3>2
    <3>4. QED BY <3>1, <3>2, <3>3, Disconnected
  <2>3. QED BY <1>3, <2>1, <2>2
<1>5. m.page \in Pages /\ pages[m.page] \in PageStates
  BY <1>1, MessageFields, PageFields DEF TypeInv
<1>6. ASSUME Waiting(m)
      PROVE  /\ pages' \in [Pages -> PageStates]
             /\ \A q \in Pages \ {m.page} : pages'[q] = pages[q]
             /\ ~pages'[m.page].loading /\ pages'[m.page].load = m.load
             /\ pages'[m.page].messages = Append(pages[m.page].messages, "error")
             /\ pages'[m.page].conversation = pages[m.page].conversation
             /\ pages'[m.page].topic = pages[m.page].topic
  <2>1. pages' = [pages EXCEPT ![m.page] = AddBubble(pages[m.page], "error")]
    BY <1>6 DEF Break, ErrorBubble
  <2>2. pages \in [Pages -> PageStates] /\ pages[m.page].load = m.load
    BY <1>1, <1>6 DEF TypeInv, Waiting
  <2>3. /\ pages'[m.page] = AddBubble(pages[m.page], "error")
        /\ \A q \in Pages \ {m.page} : pages'[q] = pages[q]
    BY <1>5, <2>1, <2>2
  <2>4. AddBubble(pages[m.page], "error") \in PageStates
    BY <1>5, AddBubbleFields
  <2>5. pages' \in [Pages -> PageStates]
    BY <1>5, <2>1, <2>2, <2>4
  <2>6. QED BY <1>5, <2>2, <2>3, <2>5, AddBubbleFields
<1>7. \A q \in Pages : /\ pages'[q].conversation = pages[q].conversation
                       /\ pages'[q].topic = pages[q].topic /\ pages'[q].load = pages[q].load
  BY <1>2, <1>5, <1>6 DEF Waiting
<1>8. /\ TypeInv' /\ TurnsAlternate' /\ SubmissionInv' /\ LoadingInv' /\ CookieInv'
      /\ \A n \in wire' : LiveOn(n, pages') => /\ n \in wire /\ LiveOn(n, pages)
                                               /\ pages'[n.page] = pages[n.page]
      /\ \A x \in Traces : x.page \in Pages
  <2>1. cookie' \in Ids /\ delivered' \subseteq Responses
    BY <1>1, <1>2 DEF TypeInv
  <2>2. delivered \subseteq delivered' /\ delivered' \subseteq delivered \cup {m}
    BY <1>2
  <2>3. Waiting(m) => /\ pages' \in [Pages -> PageStates]
                      /\ \A q \in Pages \ {m.page} : pages'[q] = pages[q]
                      /\ ~pages'[m.page].loading /\ pages'[m.page].load = m.load
                      /\ pages'[m.page].messages = Append(pages[m.page].messages, "error")
    BY <1>6
  <2>4. QED BY <1>2, <1>3, <1>4, <2>1, <2>2, <2>3, SettleInv
<1>9. \A n \in wire' : n \in wire \/ n \in rest
  BY <1>3
<1>10. ConversationInv'
  <2>1. \A n \in rest : m.what = "request" /\ n.what = "request"
    BY <1>4 DEF Requests
  <2>2. \A n \in wire' : n.what = "request" /\ n.conversation # None
            => OwnsConversation(rows, n.conversation, n.page, n.load)
    BY <1>1, <1>4, <1>9, <2>1 DEF ConversationInv
  <2>3. \A n \in wire' : n.what = "answer" => OwnsConversation(rows, n.conversation, n.page, n.load)
    BY <1>1, <1>9, <2>1 DEF ConversationInv
  <2>4. QED BY <1>1, <1>2, <1>7, <2>2, <2>3 DEF ConversationInv
<1>11. ContextInv'
  <2>1. ASSUME NEW n \in wire', LiveOn(n, pages'), n.what \in {"request", "answer"}
        PROVE  /\ n.what = "request" => n.conversation = pages'[n.page].conversation
               /\ n.what = "answer" => /\ n.conversation # None
                                       /\ pages'[n.page].conversation \in {None, n.conversation}
    BY <1>1, <1>8, <2>1 DEF ContextInv, Live
  <2>2. \A d \in delivered :
            d.load = pages'[d.page].load => /\ d.conversation = pages'[d.page].conversation
                                            /\ d.conversation # None
    BY <1>1, <1>7, <1>8 DEF ContextInv, Traces
  <2>3. QED BY <1>2, <2>1, <2>2 DEF ContextInv, Live
<1>12. TopicInv'
  <2>1. \A n \in rest : m.what = "request" /\ n.what = "request"
    BY <1>4 DEF Requests
  <2>2. \A n \in wire' : n.what = "request" => FromLatest(n.topic, delivered, n.id, n.page, n.load)
    BY <1>1, <1>4, <1>9, <2>1 DEF TopicInv
  <2>3. QED BY <1>1, <1>2, <1>7, <2>2 DEF TopicInv
<1>13. QED BY <1>8, <1>10, <1>11, <1>12 DEF IInv

-------------------------------------------------------------------------------
(***************************************************************************)
(* The theorems.                                                           *)
(***************************************************************************)

LEMMA NextInv == IInv /\ [Next]_vars => IInv'
<1> SUFFICES ASSUME IInv, [Next]_vars PROVE IInv'
  OBVIOUS
<1>1. CASE UNCHANGED vars
  BY <1>1 DEF vars, IInv, TypeInv, TurnsAlternate, SubmissionInv, LoadingInv, Live, LiveOn, Traces,
     ConversationInv, ContextInv, TopicInv, CookieInv
<1>2. ASSUME NEW p \in Pages, Submit(p) \/ Reload(p) PROVE IInv'
  BY <1>2, SubmitInv, ReloadInv
<1>3. ASSUME NEW m \in wire, Answer(m) \/ Fail(m) \/ Deliver(m) \/ Break(m) PROVE IInv'
  BY <1>3, AnswerInv, FailInv, DeliverInv, BreakInv
<1>4. QED BY <1>1, <1>2, <1>3 DEF Next

\* The inductive invariant: what the pages, the wire, the log and the answers
\* shown have to do with one another (page.tsx:535, main.py:237, :555).
THEOREM Invariance == Spec => []IInv
<1>1. QED BY InitInv, NextInv, PTL DEF Spec

\* On every page questions and replies take turns, and the page is loading
\* exactly while a question is open, whatever is lost, failed or reloaded
\* (page.tsx:544, :628).
THEOREM TurnsKeepAlternating == Spec => []TurnsAlternate
<1>1. IInv => TurnsAlternate
  BY DEF IInv
<1>2. QED BY Invariance, <1>1, PTL

LEMMA ContextFollows == IInv => ContextFollowsPage
<1> SUFFICES ASSUME TypeInv, SubmissionInv, ConversationInv, ContextInv, TopicInv
             PROVE  ContextFollowsPage
  BY DEF IInv
<1>1. \A d \in delivered :
          d.load = pages[d.page].load => d.conversation = pages[d.page].conversation
  BY DEF ContextInv
<1>2. ASSUME NEW r \in rows, NEW s \in rows, r.conversation = s.conversation PROVE SamePage(r, s)
  <2>1. PICK t \in rows : t.id = r.conversation /\ t.page = r.page /\ t.load = r.load
    BY DEF ConversationInv, OwnsConversation
  <2>2. PICK u \in rows : u.id = s.conversation /\ u.page = s.page /\ u.load = s.load
    BY DEF ConversationInv, OwnsConversation
  <2>3. t = u
    BY <1>2, <2>1, <2>2 DEF SubmissionInv
  <2>4. QED BY <2>1, <2>2, <2>3 DEF SamePage
<1>3. ASSUME NEW r \in rows, r.incoming # NoTopic
      PROVE  LET earlier == {d \in delivered : SamePage(d, r) /\ d.id < r.id /\ d.topic # NoTopic}
             IN  \E d \in earlier : d.topic = r.incoming /\ \A e \in earlier : e.id <= d.id
  <2>1. {d \in delivered : SamePage(d, r) /\ d.id < r.id /\ d.topic # NoTopic}
            = Earlier(delivered, r.id, r.page, r.load)
    BY DEF Earlier, SamePage
  <2>2. FromLatest(r.incoming, delivered, r.id, r.page, r.load)
    BY DEF TopicInv
  <2>3. QED BY <1>3, <2>1, <2>2 DEF FromLatest
<1>4. QED BY <1>1, <1>2, <1>3 DEF ContextFollowsPage

\* One load of a page is one conversation, no other page's rows carry its id,
\* and the topic it sends is that of its latest answer that had one
\* (main.py:555, :1069; page.tsx:602).
THEOREM ContextStaysWithPage == Spec => []ContextFollowsPage
<1>1. QED BY Invariance, ContextFollows, PTL

\* A page that shows its spinner has a message on the wire, of its latest
\* submission, that can still end it: the safety half of "every submission
\* comes to an end" (page.tsx:613).
THEOREM SubmissionIsUnderWay == Spec => []LoadingInv
<1>1. IInv => LoadingInv
  BY DEF IInv
<1>2. QED BY Invariance, <1>1, PTL

\* Once the browser has a cookie and no exchange begun without one is under
\* way, no step of any tab, request or answer changes it (main.py:237, :265).
THEOREM SessionIdSettles == Spec => SessionSettles
<1> DEFINE Settled == cookie # None /\ (\A m \in wire : ~Unsettled(m))
<1>1. IInv /\ [Next]_vars => [Settled => cookie' = cookie]_vars
  <2> SUFFICES ASSUME IInv, Next, Settled PROVE cookie' = cookie
    OBVIOUS
  <2>1. ASSUME NEW p \in Pages, Submit(p) \/ Reload(p) PROVE cookie' = cookie
    BY <2>1 DEF Submit, Reload
  <2>2. ASSUME NEW m \in wire, Answer(m) \/ Fail(m) \/ Break(m) PROVE cookie' = cookie
    BY <2>2 DEF Answer, Fail, Break
  <2>3. ASSUME NEW m \in wire, Deliver(m) PROVE cookie' = cookie
    <3>1. m.what # "request" /\ cookie' = IF m.session # None THEN m.session ELSE cookie
      BY <2>3 DEF Deliver
    <3>2. m.sent # None
      BY <3>1 DEF Unsettled
    <3>3. m.session = None
      BY <3>1, <3>2 DEF IInv, CookieInv
    <3>4. QED BY <3>1, <3>3
  <2>4. QED BY <2>1, <2>2, <2>3 DEF Next
<1>2. QED BY Invariance, <1>1, PTL DEF Spec, SessionSettles

===============================================================================
