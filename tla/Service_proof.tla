--------------------------- MODULE Service_proof ---------------------------
(***************************************************************************)
(* Service is type correct for any number of workers and sessions; and     *)
(* with one worker nobody is authenticated unchecked, and cached pages     *)
(* show the user and the language they are looked up for.  The two latter  *)
(* fail with two workers, so that they have the hypothesis Workers = {me}. *)
(*                                                                         *)
(* The invariants add to the properties what a request has learnt so far:  *)
(* the variables it has at each step (Fits), and with one worker that they *)
(* still agree with the session (Knows).                                   *)
(***************************************************************************)
EXTENDS Service, TLAPS

Places == {"idle", "post", "key", "init", "store", "check", "login", "logout", "locale"}
Types == {UNAUTHED, UNNAMED, LOCAL_USER, AUTHED}

RequestType == [at : Places, key : Key \cup {None}, page : Page \cup {None}, remind : BOOLEAN,
                email : Emails \cup {None}, ok : BOOLEAN, locale : Locales \cup {None}]

\* The variables a request has.
Fits(r) ==
    /\ r \in RequestType
    /\ r.at \in {"init", "store"} => r.key \in Key
    /\ r.at = "store" => r.page \in Page
    /\ r.at \in {"check", "login"} => r.email \in Emails
    /\ r.at = "locale" => r.locale \in Locales

SitesOK ==
    /\ built \subseteq Workers /\ registered \in built \cup {None}
    /\ built # {} => registered # None
    /\ locale \in [Workers -> Locales]

SessionsOK ==
    /\ session \in [Sessions -> Session]
    /\ checked \in [Sessions -> SUBSET Emails]

PagesOK == pages \subseteq [key : Key, page : Page]

RequestsOK ==
    /\ serving \in [Workers -> Sessions \cup {None}]
    /\ request \in [Workers -> RequestType]
    /\ \A w \in Workers :
          /\ Fits(request[w])
          /\ (serving[w] # None) = (~At(w, "idle"))
          /\ serving[w] # None => w \in built

IInv == SitesOK /\ SessionsOK /\ PagesOK /\ RequestsOK

\* The parts of the invariant are more than the type invariant.
LEMMA IInvType == IInv => TypeOK
BY DEF IInv, SitesOK, SessionsOK, PagesOK, RequestsOK, RequestType, Places, Request, TypeOK

----------------------------------------------------------------------------
(* Requests.                                                               *)

\* The places of a request.
LEMMA Names ==
    /\ "idle" \in Places /\ "post" \in Places /\ "key" \in Places /\ "init" \in Places
    /\ "store" \in Places /\ "check" \in Places /\ "login" \in Places
    /\ "logout" \in Places /\ "locale" \in Places
BY DEF Places

\* No request.
LEMMA IdleFits == Idle \in RequestType /\ Idle.at = "idle" /\ Fits(Idle)
<1>1. Idle \in RequestType
  BY Names DEF Idle, RequestType
<1>2. Idle.at = "idle"
  BY DEF Idle
<1>3. QED
  BY <1>1, <1>2 DEF Fits

\* A request whose variables change one by one stays typed.
LEMMA ChangedTyped ==
    ASSUME NEW r \in RequestType
    PROVE  /\ \A at \in Places : [r EXCEPT !.at = at] \in RequestType
           /\ \A key \in Key : [r EXCEPT !.key = key] \in RequestType
           /\ \A page \in Page : [r EXCEPT !.page = page] \in RequestType
           /\ \A b \in BOOLEAN : [r EXCEPT !.remind = b] \in RequestType
           /\ \A e \in Emails : [r EXCEPT !.email = e] \in RequestType
           /\ \A b \in BOOLEAN : [r EXCEPT !.ok = b] \in RequestType
           /\ \A l \in Locales : [r EXCEPT !.locale = l] \in RequestType
BY DEF RequestType

\* The request in progress of a worker, and who it is for.
LEMMA InProgress ==
    ASSUME IInv, NEW w \in Workers, ~At(w, "idle")
    PROVE  /\ request[w] \in RequestType /\ Fits(request[w])
           /\ serving[w] \in Sessions /\ w \in built
           /\ registered \in Workers /\ registered \in built
BY NoneAssumption DEF IInv, SitesOK, RequestsOK

\* The session that the registered modules see.
LEMMA ItsIs == IInv /\ Its # None => Its \in Sessions /\ registered \in Workers
BY NoneAssumption DEF IInv, SitesOK, RequestsOK, Its

\* A step inside a request.
LEMMA GotoStep ==
    ASSUME RequestsOK, NEW w \in Workers, ~At(w, "idle"), NEW r, Fits(r), r.at # "idle",
           Goto(w, r), UNCHANGED <<built, serving>>
    PROVE  RequestsOK'
<1>1. r \in RequestType
  BY DEF Fits
<1>2. request' \in [Workers -> RequestType] /\ \A v \in Workers : request'[v] = IF v = w THEN r ELSE request[v]
  BY <1>1 DEF RequestsOK, Goto
<1>3. \A v \in Workers : Fits(request'[v])
  BY <1>2 DEF RequestsOK
<1>4. \A v \in Workers : (serving'[v] # None) = (request'[v].at # "idle")
  BY <1>2 DEF RequestsOK, At
<1>5. QED
  BY <1>2, <1>3, <1>4 DEF RequestsOK, At, Fits, RequestType, Key, Page, Session, Ids

\* The end of a request.
LEMMA FinishStep ==
    ASSUME RequestsOK, NEW w \in Workers, Finish(w), UNCHANGED built
    PROVE  RequestsOK'
<1>1. request' \in [Workers -> RequestType] /\ \A v \in Workers : request'[v] = IF v = w THEN Idle ELSE request[v]
  BY IdleFits DEF RequestsOK, Finish, Goto
<1>2. serving' \in [Workers -> Sessions \cup {None}] /\ \A v \in Workers : serving'[v] = IF v = w THEN None ELSE serving[v]
  BY DEF RequestsOK, Finish
<1>3. \A v \in Workers : Fits(request'[v])
  BY <1>1, IdleFits DEF RequestsOK
<1>4. \A v \in Workers : (serving'[v] # None) = (request'[v].at # "idle")
  BY <1>1, <1>2, IdleFits DEF RequestsOK, At
<1>5. \A v \in Workers : serving'[v] # None => v \in built'
  BY <1>2 DEF RequestsOK
<1>6. QED
  BY <1>1, <1>2, <1>3, <1>4, <1>5 DEF RequestsOK, At, Fits

\* What a step leaves alone stays typed.
LEMMA SameSites == SitesOK /\ UNCHANGED <<built, registered, locale>> => SitesOK'
BY DEF SitesOK

LEMMA SameSessions == SessionsOK /\ UNCHANGED <<session, checked>> => SessionsOK'
BY DEF SessionsOK

LEMMA SamePages == PagesOK /\ UNCHANGED pages => PagesOK'
BY DEF PagesOK

----------------------------------------------------------------------------
(* Sessions.                                                               *)

\* The methods of Auth make sessions of sessions, and auth() authenticates nobody.
LEMMA AuthTyped ==
    ASSUME SessionsOK, NEW s \in Sessions
    PROVE  /\ UserType(s) \in Types
           /\ AfterAuth(s) \in Session /\ AfterDeauth(s) \in Session
           /\ \A e \in Emails, ok \in BOOLEAN : AfterCheck(s, e, ok) \in Session
<1>1. session[s] \in Session
  BY DEF SessionsOK
<1>2. UserType(s) \in Types
  BY <1>1 DEF UserType, Session, Types
<1>3. DoAuth(s) \in Session
  <2>1. LocalId \in Ids /\ s \in Ids
    BY DEF Ids
  <2>2. UNNAMED \in {UNAUTHED, UNNAMED, LOCAL_USER, AUTHED, None}
        /\ LOCAL_USER \in {UNAUTHED, UNNAMED, LOCAL_USER, AUTHED, None}
    OBVIOUS
  <2>3. \A i \in Ids, y \in {UNAUTHED, UNNAMED, LOCAL_USER, AUTHED, None} :
           [session[s] EXCEPT !.id = i, !.type = y] \in Session
    BY <1>1 DEF Session
  <2>4. QED
    BY <1>1, <2>1, <2>2, <2>3 DEF DoAuth
<1>4. AfterAuth(s) \in Session
  BY <1>1, <1>3 DEF AfterAuth
<1>5. AfterDeauth(s) \in Session
  BY DEF AfterDeauth, Fresh, Session, Ids
<1>6. ASSUME NEW e \in Emails, NEW ok \in BOOLEAN PROVE AfterCheck(s, e, ok) \in Session
  <2>1. [id |-> e, type |-> AUTHED, remind |-> FALSE] \in Session
    BY DEF Session, Ids
  <2>2. [session[s] EXCEPT !.remind = TRUE] \in Session
    BY <1>1 DEF Session
  <2>3. QED
    BY <2>1, <2>2 DEF AfterCheck
<1>7. QED
  BY <1>2, <1>4, <1>5, <1>6

\* A session that is replaced by a session.
LEMMA SessionStep ==
    ASSUME SessionsOK, NEW s \in Sessions, NEW x \in Session,
           session' = [session EXCEPT ![s] = x], checked' \in [Sessions -> SUBSET Emails]
    PROVE  SessionsOK'
BY DEF SessionsOK

----------------------------------------------------------------------------
(* The actions.                                                            *)

LEMMA BuildInv ==
    ASSUME IInv, NEW w \in Workers, Build(w)
    PROVE  IInv'
<1>1. SitesOK'
  BY NoneAssumption DEF IInv, SitesOK, Build
<1>2. RequestsOK'
  BY DEF IInv, RequestsOK, Build, At, Fits
<1>3. QED
  BY <1>1, <1>2, SameSessions, SamePages DEF IInv, Build

LEMMA ArriveInv ==
    ASSUME IInv, NEW w \in Workers, NEW s \in Sessions, Arrive(w, s)
    PROVE  IInv'
<1>1. ASSUME NEW r, Fits(r), r.at # "idle", Goto(w, r)
      PROVE  RequestsOK'
  <2>1. r \in RequestType /\ s # None /\ w \in built
    BY <1>1, NoneAssumption DEF Fits, Arrive
  <2>2. request' \in [Workers -> RequestType] /\ \A v \in Workers : request'[v] = IF v = w THEN r ELSE request[v]
    BY <1>1, <2>1 DEF IInv, RequestsOK, Goto
  <2>3. serving' \in [Workers -> Sessions \cup {None}] /\ \A v \in Workers : serving'[v] = IF v = w THEN s ELSE serving[v]
    BY DEF IInv, RequestsOK, Arrive
  <2>4. \A v \in Workers : Fits(request'[v])
    BY <1>1, <2>2 DEF IInv, RequestsOK
  <2>5. \A v \in Workers : (serving'[v] # None) = (request'[v].at # "idle")
    BY <1>1, <2>1, <2>2, <2>3 DEF IInv, RequestsOK, At
  <2>6. UNCHANGED built
    BY DEF Arrive
  <2>7. QED
    BY <2>1, <2>2, <2>3, <2>4, <2>5, <2>6 DEF IInv, RequestsOK, At, Fits
<1>2. ASSUME Goto(w, [Idle EXCEPT !.at = "post"]) PROVE RequestsOK'
  <2>1. [Idle EXCEPT !.at = "post"] \in RequestType
    BY IdleFits, ChangedTyped, Names
  <2>2. [Idle EXCEPT !.at = "post"].at = "post"
    BY DEF Idle
  <2>3. QED
    BY <1>1, <1>2, <2>1, <2>2 DEF Fits
<1>3. ASSUME NEW e \in Emails, Goto(w, [Idle EXCEPT !.at = "check", !.email = e])
      PROVE  RequestsOK'
  <2> DEFINE r == [Idle EXCEPT !.at = "check", !.email = e]
  <2>1. r \in RequestType
    BY IdleFits, Names DEF RequestType
  <2>2. r.at = "check" /\ r.email = e
    BY DEF Idle
  <2> HIDE DEF r
  <2>3. Fits(r)
    BY <2>1, <2>2 DEF Fits
  <2>4. QED
    BY <1>1, <1>3, <2>2, <2>3 DEF r
<1>4. ASSUME Goto(w, [Idle EXCEPT !.at = "logout"]) PROVE RequestsOK'
  <2>1. [Idle EXCEPT !.at = "logout"] \in RequestType
    BY IdleFits, ChangedTyped, Names
  <2>2. [Idle EXCEPT !.at = "logout"].at = "logout"
    BY DEF Idle
  <2>3. QED
    BY <1>1, <1>4, <2>1, <2>2 DEF Fits
<1>5. ASSUME NEW l \in Locales, Goto(w, [Idle EXCEPT !.at = "locale", !.locale = l])
      PROVE  RequestsOK'
  <2> DEFINE r == [Idle EXCEPT !.at = "locale", !.locale = l]
  <2>1. r \in RequestType
    BY IdleFits, Names DEF RequestType
  <2>2. r.at = "locale" /\ r.locale = l
    BY DEF Idle
  <2> HIDE DEF r
  <2>3. Fits(r)
    BY <2>1, <2>2 DEF Fits
  <2>4. QED
    BY <1>1, <1>5, <2>2, <2>3 DEF r
<1>6. RequestsOK'
  BY <1>2, <1>3, <1>4, <1>5 DEF Arrive
<1>7. QED
  BY <1>6, SameSites, SameSessions, SamePages DEF IInv, Arrive

LEMMA ThrowsInv ==
    ASSUME IInv, NEW w \in Workers, Throws(w)
    PROVE  IInv'
<1>1. Finish(w) /\ UNCHANGED <<built, registered, session, locale, pages, checked>>
  BY DEF Throws
<1>2. RequestsOK'
  BY <1>1, FinishStep DEF IInv
<1>3. QED
  BY <1>1, <1>2, SameSites, SameSessions, SamePages DEF IInv

LEMMA PostInv ==
    ASSUME IInv, NEW w \in Workers, Post(w)
    PROVE  IInv'
<1>1. CASE Throws(w)
  BY <1>1, ThrowsInv
<1>2. CASE /\ Its # None
           /\ session' = [session EXCEPT ![Its] = AfterAuth(Its)]
           /\ Goto(w, [Idle EXCEPT !.at = "key", !.remind = session[Its].remind])
           /\ UNCHANGED <<built, registered, serving, locale, pages, checked>>
  <2> DEFINE r == [Idle EXCEPT !.at = "key", !.remind = session[Its].remind]
  <2>1. Its \in Sessions /\ ~At(w, "idle")
    BY <1>2, ItsIs DEF Post, At
  <2>2. session[Its].remind \in BOOLEAN
    BY <2>1 DEF IInv, SessionsOK, Session
  <2>3. r \in RequestType
    BY <2>2, IdleFits, Names DEF RequestType
  <2>4. r.at = "key"
    BY DEF Idle
  <2>5. Goto(w, r)
    BY <1>2
  <2> HIDE DEF r
  <2>6. Fits(r)
    BY <2>3, <2>4 DEF Fits
  <2>7. RequestsOK'
    BY <1>2, <2>1, <2>4, <2>5, <2>6, GotoStep DEF IInv
  <2>8. AfterAuth(Its) \in Session
    BY <2>1, AuthTyped DEF IInv
  <2>9. checked' \in [Sessions -> SUBSET Emails]
    BY <1>2 DEF IInv, SessionsOK
  <2>10. SessionsOK'
    BY <1>2, <2>1, <2>8, <2>9, SessionStep DEF IInv
  <2>11. QED
    BY <1>2, <2>7, <2>10, SameSites, SamePages DEF IInv
<1>3. QED
  BY <1>1, <1>2 DEF Post

\* The key of a page is a key.
LEMMA KeyTyped ==
    ASSUME IInv, NEW w \in Workers, ~At(w, "idle"), Its # None
    PROVE  PageKey(w) \in Key
<1>1. serving[w] \in Sessions /\ Its \in Sessions
  BY InProgress, ItsIs
<1>2. session[serving[w]].id \in Ids /\ UserType(Its) \in Types
  BY <1>1, AuthTyped DEF IInv, SessionsOK, Session
<1>3. request[w].remind \in BOOLEAN /\ locale[w] \in Locales
  BY InProgress DEF RequestType, IInv, SitesOK
<1>4. QED
  BY <1>2, <1>3 DEF PageKey, Key, Types

LEMMA LookUpInv ==
    ASSUME IInv, NEW w \in Workers, LookUp(w)
    PROVE  IInv'
<1>1. CASE Throws(w)
  BY <1>1, ThrowsInv
<1>2. CASE Finish(w) /\ UNCHANGED <<built, registered, session, locale, pages, checked>>
  <2>1. RequestsOK'
    BY <1>2, FinishStep DEF IInv
  <2>2. QED
    BY <1>2, <2>1, SameSites, SameSessions, SamePages DEF IInv
<1>3. CASE /\ Its # None
           /\ Goto(w, [Idle EXCEPT !.at = "init", !.key = PageKey(w)])
           /\ UNCHANGED <<built, registered, serving, session, locale, pages, checked>>
  <2> DEFINE r == [Idle EXCEPT !.at = "init", !.key = PageKey(w)]
  <2>1. ~At(w, "idle") /\ PageKey(w) \in Key
    BY <1>3, KeyTyped DEF LookUp, At
  <2>2. r \in RequestType
    BY <2>1, IdleFits, Names DEF RequestType
  <2>3. r.at = "init" /\ r.key = PageKey(w)
    BY DEF Idle
  <2>4. Goto(w, r)
    BY <1>3
  <2> HIDE DEF r
  <2>5. Fits(r)
    BY <2>1, <2>2, <2>3 DEF Fits
  <2>6. RequestsOK'
    BY <1>3, <2>1, <2>3, <2>4, <2>5, GotoStep DEF IInv
  <2>7. QED
    BY <1>3, <2>6, SameSites, SameSessions, SamePages DEF IInv
<1>4. QED
  BY <1>1, <1>2, <1>3 DEF LookUp

LEMMA InitPageInv ==
    ASSUME IInv, NEW w \in Workers, InitPage(w)
    PROVE  IInv'
<1>1. CASE Throws(w)
  BY <1>1, ThrowsInv
<1>2. CASE Its # None /\ ~Throws(w)
  <2> DEFINE shown == [user |-> IF UserType(Its) = AUTHED THEN session[Its].id ELSE Anonymous,
                       locale |-> locale[w]]
             r == [request[w] EXCEPT !.at = "store", !.page = shown]
  <2>1. /\ session' = [session EXCEPT ![Its] = AfterAuth(Its)]
        /\ Goto(w, r)
        /\ UNCHANGED <<built, registered, serving, locale, pages, checked>>
    BY <1>2 DEF InitPage
  <2>2. ~At(w, "idle") /\ request[w].at = "init" /\ Its \in Sessions
    BY <1>2, ItsIs DEF InitPage, At
  <2>3. request[w] \in RequestType /\ request[w].key \in Key
    BY <2>2, InProgress DEF Fits
  <2>4. shown \in Page
    BY <2>2 DEF IInv, SitesOK, SessionsOK, Session, Page
  <2> HIDE DEF shown
  <2>5. r \in RequestType /\ r.at = "store" /\ r.key = request[w].key /\ r.page = shown
    BY <2>3, <2>4, Names DEF RequestType
  <2> HIDE DEF r
  <2>6. Fits(r)
    BY <2>3, <2>4, <2>5 DEF Fits
  <2>7. RequestsOK'
    BY <2>1, <2>2, <2>5, <2>6, GotoStep DEF IInv
  <2>8. AfterAuth(Its) \in Session /\ checked' \in [Sessions -> SUBSET Emails]
    BY <2>1, <2>2, AuthTyped DEF IInv, SessionsOK
  <2>9. SessionsOK'
    BY <2>1, <2>2, <2>8, SessionStep DEF IInv
  <2>10. QED
    BY <2>1, <2>7, <2>9, SameSites, SamePages DEF IInv
<1>3. QED
  BY <1>1, <1>2 DEF InitPage

LEMMA StoreInv ==
    ASSUME IInv, NEW w \in Workers, Store(w)
    PROVE  IInv'
<1>1. ~At(w, "idle") /\ request[w].key \in Key /\ request[w].page \in Page
  BY InProgress DEF Store, At, Fits
<1>2. Finish(w) /\ UNCHANGED <<built, registered, session, locale, checked>>
  BY DEF Store
<1>3. RequestsOK'
  BY <1>2, FinishStep DEF IInv
<1>4. [key |-> request[w].key, page |-> request[w].page] \in [key : Key, page : Page]
  BY <1>1
<1>5. PagesOK'
  BY <1>4 DEF Store, IInv, PagesOK
<1>6. QED
  BY <1>2, <1>3, <1>5, SameSites, SameSessions DEF IInv

LEMMA CheckAccountInv ==
    ASSUME IInv, NEW w \in Workers, NEW ok \in BOOLEAN, CheckAccount(w, ok)
    PROVE  IInv'
<1> DEFINE r == [request[w] EXCEPT !.at = "login", !.ok = ok]
<1>1. ~At(w, "idle") /\ request[w].at = "check" /\ Goto(w, r)
      /\ UNCHANGED <<built, registered, serving, session, locale, pages>>
  BY DEF CheckAccount, At
<1>2. request[w] \in RequestType /\ request[w].email \in Emails /\ serving[w] \in Sessions
  BY <1>1, InProgress DEF Fits
<1>3. r \in RequestType /\ r.at = "login" /\ r.email = request[w].email
  BY <1>2, Names DEF RequestType
<1> HIDE DEF r
<1>4. Fits(r)
  BY <1>2, <1>3 DEF Fits
<1>5. RequestsOK'
  BY <1>1, <1>3, <1>4, GotoStep DEF IInv
<1>6. SessionsOK'
  BY <1>1, <1>2 DEF CheckAccount, IInv, SessionsOK
<1>7. QED
  BY <1>1, <1>5, <1>6, SameSites, SamePages DEF IInv

LEMMA LoginInv ==
    ASSUME IInv, NEW w \in Workers, Login(w)
    PROVE  IInv'
<1>1. CASE Throws(w)
  BY <1>1, ThrowsInv
<1>2. CASE Its # None /\ ~Throws(w)
  <2>1. /\ session' = [session EXCEPT ![Its] = AfterCheck(Its, request[w].email, request[w].ok)]
        /\ Finish(w) /\ UNCHANGED <<built, registered, locale, pages, checked>>
    BY <1>2 DEF Login
  <2>2. Its \in Sessions /\ request[w].at = "login" /\ ~At(w, "idle")
    BY <1>2, ItsIs DEF Login, At
  <2>3. request[w].email \in Emails /\ request[w].ok \in BOOLEAN
    BY <2>2, InProgress DEF Fits, RequestType
  <2>4. AfterCheck(Its, request[w].email, request[w].ok) \in Session
        /\ checked' \in [Sessions -> SUBSET Emails]
    BY <2>1, <2>2, <2>3, AuthTyped DEF IInv, SessionsOK
  <2>5. SessionsOK'
    BY <2>1, <2>2, <2>4, SessionStep DEF IInv
  <2>6. RequestsOK'
    BY <2>1, FinishStep DEF IInv
  <2>7. QED
    BY <2>1, <2>5, <2>6, SameSites, SamePages DEF IInv
<1>3. QED
  BY <1>1, <1>2 DEF Login

LEMMA LogoutInv ==
    ASSUME IInv, NEW w \in Workers, Logout(w)
    PROVE  IInv'
<1>1. CASE Throws(w)
  BY <1>1, ThrowsInv
<1>2. CASE Its # None /\ ~Throws(w)
  <2>1. /\ session' = [session EXCEPT ![Its] = AfterDeauth(Its)]
        /\ checked' = [checked EXCEPT ![serving[w]] = {}]
        /\ Finish(w) /\ UNCHANGED <<built, registered, locale, pages>>
    BY <1>2 DEF Logout
  <2>2. Its \in Sessions
    BY <1>2, ItsIs
  <2>3. AfterDeauth(Its) \in Session /\ checked' \in [Sessions -> SUBSET Emails]
    BY <2>1, <2>2, AuthTyped DEF IInv, SessionsOK
  <2>4. SessionsOK'
    BY <2>1, <2>2, <2>3, SessionStep DEF IInv
  <2>5. RequestsOK'
    BY <2>1, FinishStep DEF IInv
  <2>6. QED
    BY <2>1, <2>4, <2>5, SameSites, SamePages DEF IInv
<1>3. QED
  BY <1>1, <1>2 DEF Logout

LEMMA SetLocaleInv ==
    ASSUME IInv, NEW w \in Workers, SetLocale(w)
    PROVE  IInv'
<1>1. ~At(w, "idle") /\ request[w].locale \in Locales /\ registered \in Workers
  BY InProgress DEF SetLocale, At, Fits
<1>2. locale' = [locale EXCEPT ![registered] = request[w].locale]
      /\ Finish(w) /\ UNCHANGED <<built, registered, session, pages, checked>>
  BY DEF SetLocale
<1>3. SitesOK'
  BY <1>1, <1>2 DEF IInv, SitesOK
<1>4. RequestsOK'
  BY <1>2, FinishStep DEF IInv
<1>5. QED
  BY <1>2, <1>3, <1>4, SameSessions, SamePages DEF IInv

LEMMA InitIInv == Init => IInv
<1> SUFFICES ASSUME Init PROVE IInv
  OBVIOUS
<1>1. SitesOK
  BY DEF Init, SitesOK
<1>2. Fresh \in Session
  BY DEF Fresh, Session, Ids
<1>3. SessionsOK
  BY <1>2 DEF Init, SessionsOK
<1>4. RequestsOK
  BY IdleFits DEF Init, RequestsOK, At
<1>5. QED
  BY <1>1, <1>3, <1>4 DEF Init, IInv, PagesOK

LEMMA NextIInv == IInv /\ [Next]_vars => IInv'
<1> SUFFICES ASSUME IInv, [Next]_vars PROVE IInv'
  OBVIOUS
<1>1. CASE UNCHANGED vars
  <2>1. UNCHANGED <<built, serving, request>> /\ UNCHANGED <<registered, locale>>
        /\ UNCHANGED <<session, checked>> /\ UNCHANGED pages
    BY <1>1 DEF vars
  <2>2. RequestsOK'
    BY <2>1 DEF IInv, RequestsOK, At, Fits
  <2>3. QED
    BY <2>1, <2>2, SameSites, SameSessions, SamePages DEF IInv
<1>2. ASSUME NEW w \in Workers,
             \/ Build(w) \/ \E s \in Sessions : Arrive(w, s)
             \/ Post(w) \/ LookUp(w) \/ InitPage(w) \/ Store(w)
             \/ \E ok \in BOOLEAN : CheckAccount(w, ok)
             \/ Login(w) \/ Logout(w) \/ SetLocale(w)
      PROVE  IInv'
  BY <1>2, BuildInv, ArriveInv, PostInv, LookUpInv, InitPageInv, StoreInv, CheckAccountInv,
     LoginInv, LogoutInv, SetLocaleInv
<1>3. QED
  BY <1>1, <1>2 DEF Next

\* The type invariant of the service, for any number of workers and sessions: a site
\* that handles a request is built, and a built site means a registered one.
THEOREM ServiceTypeCorrect == Spec => []TypeOK
<1>1. IInv => TypeOK
  BY IInvType
<1>2. QED
  BY <1>1, InitIInv, NextIInv, PTL DEF Spec

----------------------------------------------------------------------------
(* One worker.                                                             *)

\* The registered modules see the session of the request in progress.
LEMMA ItsMine ==
    ASSUME IInv, NEW me, Workers = {me}, NEW w \in Workers, ~At(w, "idle")
    PROVE  Its = serving[w] /\ Its \in Sessions /\ ~Throws(w)
<1>1. registered = w /\ serving[w] \in Sessions
  BY InProgress
<1>2. Its = serving[w] /\ Its # None
  BY <1>1, NoneAssumption DEF Its
<1>3. QED
  BY <1>1, <1>2 DEF Throws

\* auth() authenticates nobody, and leaves an authenticated session alone.
LEMMA AuthKeeps ==
    ASSUME SessionsOK, NEW s \in Sessions
    PROVE  /\ (AfterAuth(s).type = AUTHED) = (session[s].type = AUTHED)
           /\ session[s].type = AUTHED => AfterAuth(s) = session[s]
           /\ (UserType(s) = AUTHED) = (session[s].type = AUTHED)
<1>1. session[s] \in Session /\ None # AUTHED
  BY NoneAssumption DEF SessionsOK, AUTHED
<1>2. (UserType(s) = AUTHED) = (session[s].type = AUTHED)
  BY <1>1 DEF UserType, UNAUTHED, AUTHED
<1>3. CASE UserType(s) # UNAUTHED
  BY <1>2, <1>3 DEF AfterAuth
<1>4. CASE UserType(s) = UNAUTHED
  <2>1. session[s].type # AUTHED
    BY <1>2, <1>4 DEF UNAUTHED, AUTHED
  <2>2. DoAuth(s).type # AUTHED
    BY <1>1, <2>1 DEF DoAuth, Session, AUTHED, UNNAMED, LOCAL_USER
  <2>3. QED
    BY <1>2, <1>4, <2>1, <2>2 DEF AfterAuth
<1>5. QED
  BY <1>3, <1>4

\* What the login in progress has proved.
Proved ==
    \A w \in Workers :
        At(w, "login") /\ request[w].ok => request[w].email \in checked[serving[w]]

\* A step that leaves the authenticated sessions and what was proved alone.
LEMMA ProvedStep ==
    ASSUME IInv, NEW me, Workers = {me}, AuthedWasChecked, UNCHANGED checked,
           \A s \in Sessions : session'[s].type = AUTHED => session'[s] = session[s],
           request'[me].at # "login"
    PROVE  (AuthedWasChecked /\ Proved)'
BY DEF AuthedWasChecked, Proved, At

\* The place of a request after a step of its worker.
LEMMA PlaceAfter ==
    ASSUME IInv, NEW w \in Workers
    PROVE  /\ Finish(w) => request'[w].at = "idle"
           /\ \A r : Goto(w, r) => request'[w] = r
BY IdleFits DEF IInv, RequestsOK, Finish, Goto

LEMMA OneWorkerChecks ==
    ASSUME NEW me, Workers = {me}, IInv, AuthedWasChecked, Proved, [Next]_vars
    PROVE  (AuthedWasChecked /\ Proved)'
<1> me \in Workers
  OBVIOUS
<1>1. CASE UNCHANGED vars
  BY <1>1 DEF vars, AuthedWasChecked, Proved, At
<1>2. CASE Build(me)
  BY <1>2 DEF Build, AuthedWasChecked, Proved, At
<1>3. ASSUME NEW s \in Sessions, Arrive(me, s) PROVE (AuthedWasChecked /\ Proved)'
  <2>1. request'[me].at # "login"
    BY <1>3, PlaceAfter DEF Arrive, Idle
  <2>2. UNCHANGED <<session, checked>>
    BY <1>3 DEF Arrive
  <2>3. QED
    BY <2>1, <2>2, ProvedStep
<1>4. CASE Post(me)
  <2>1. Its \in Sessions /\ ~Throws(me)
    BY <1>4, ItsMine DEF Post, At
  <2>2. session' = [session EXCEPT ![Its] = AfterAuth(Its)] /\ UNCHANGED checked
        /\ Goto(me, [Idle EXCEPT !.at = "key", !.remind = session[Its].remind])
    BY <1>4, <2>1 DEF Post
  <2>3. request'[me].at = "key"
    BY <2>2, PlaceAfter DEF Idle
  <2>4. \A s \in Sessions : session'[s].type = AUTHED => session'[s] = session[s]
    BY <2>1, <2>2, AuthKeeps DEF IInv, SessionsOK
  <2>5. QED
    BY <2>2, <2>3, <2>4, ProvedStep
<1>5. CASE LookUp(me)
  <2>1. ~Throws(me)
    BY <1>5, ItsMine DEF LookUp, At
  <2>2. UNCHANGED <<session, checked>>
        /\ (Finish(me) \/ Goto(me, [Idle EXCEPT !.at = "init", !.key = PageKey(me)]))
    BY <1>5, <2>1 DEF LookUp
  <2>3. request'[me].at # "login"
    BY <2>2, PlaceAfter DEF Idle
  <2>4. QED
    BY <2>2, <2>3, ProvedStep
<1>6. CASE InitPage(me)
  <2>1. Its \in Sessions /\ ~Throws(me) /\ request[me] \in RequestType
    BY <1>6, ItsMine, InProgress DEF InitPage, At
  <2>2. PICK page : Goto(me, [request[me] EXCEPT !.at = "store", !.page = page])
    BY <1>6, <2>1 DEF InitPage
  <2>3. session' = [session EXCEPT ![Its] = AfterAuth(Its)] /\ UNCHANGED checked
    BY <1>6, <2>1 DEF InitPage
  <2>4. request'[me].at = "store"
    BY <2>1, <2>2, PlaceAfter DEF RequestType
  <2>5. \A s \in Sessions : session'[s].type = AUTHED => session'[s] = session[s]
    BY <2>1, <2>3, AuthKeeps DEF IInv, SessionsOK
  <2>6. QED
    BY <2>3, <2>4, <2>5, ProvedStep
<1>7. CASE Store(me) \/ SetLocale(me)
  <2>1. Finish(me) /\ UNCHANGED <<session, checked>>
    BY <1>7 DEF Store, SetLocale
  <2>2. request'[me].at = "idle"
    BY <2>1, PlaceAfter
  <2>3. QED
    BY <2>1, <2>2, ProvedStep
<1>8. ASSUME NEW ok \in BOOLEAN, CheckAccount(me, ok) PROVE (AuthedWasChecked /\ Proved)'
  <2>1. serving[me] \in Sessions /\ request[me] \in RequestType /\ request[me].email \in Emails
    BY <1>8, InProgress DEF CheckAccount, At, Fits
  <2>2. request'[me] = [request[me] EXCEPT !.at = "login", !.ok = ok]
        /\ UNCHANGED <<serving, session>>
    BY <1>8, PlaceAfter DEF CheckAccount
  <2>3. request'[me].email = request[me].email /\ request'[me].ok = ok
    BY <2>1, <2>2 DEF RequestType
  <2>4. \A s \in Sessions : checked[s] \subseteq checked'[s]
    BY <1>8, <2>1 DEF CheckAccount, IInv, SessionsOK
  <2>5. ok => request[me].email \in checked'[serving[me]]
    BY <1>8, <2>1 DEF CheckAccount, IInv, SessionsOK
  <2>6. QED
    BY <2>2, <2>3, <2>4, <2>5 DEF AuthedWasChecked, Proved
<1>9. CASE Login(me)
  <2>1. Its = serving[me] /\ Its \in Sessions /\ ~Throws(me) /\ request[me].at = "login"
    BY <1>9, ItsMine DEF Login, At
  <2>2. session' = [session EXCEPT ![Its] = AfterCheck(Its, request[me].email, request[me].ok)]
        /\ Finish(me) /\ UNCHANGED checked
    BY <1>9, <2>1 DEF Login
  <2>3. request'[me].at = "idle"
    BY <2>2, PlaceAfter
  <2>4. session \in [Sessions -> Session]
    BY DEF IInv, SessionsOK
  <2>5. AfterCheck(Its, request[me].email, request[me].ok).type = AUTHED =>
            AfterCheck(Its, request[me].email, request[me].ok).id \in checked[Its]
    <3>1. CASE request[me].ok
      BY <2>1, <3>1 DEF AfterCheck, Proved, At
    <3>2. CASE ~request[me].ok
      <4>1. session[Its] \in Session
        BY <2>1, <2>4
      <4>2. AfterCheck(Its, request[me].email, request[me].ok).type = session[Its].type
            /\ AfterCheck(Its, request[me].email, request[me].ok).id = session[Its].id
        BY <3>2, <4>1 DEF AfterCheck, Session
      <4>3. QED
        BY <2>1, <4>2 DEF AuthedWasChecked
    <3>3. QED
      BY <3>1, <3>2
  <2>6. AuthedWasChecked'
    BY <2>1, <2>2, <2>4, <2>5 DEF AuthedWasChecked
  <2>7. QED
    BY <2>3, <2>6 DEF Proved, At
<1>10. CASE Logout(me)
  <2>1. Its = serving[me] /\ Its \in Sessions /\ ~Throws(me)
    BY <1>10, ItsMine DEF Logout, At
  <2>2. session' = [session EXCEPT ![Its] = Fresh] /\ checked' = [checked EXCEPT ![Its] = {}]
        /\ Finish(me)
    BY <1>10, <2>1 DEF Logout, AfterDeauth
  <2>3. request'[me].at = "idle"
    BY <2>2, PlaceAfter
  <2>4. Fresh.type # AUTHED
    BY NoneAssumption DEF Fresh, AUTHED
  <2>5. QED
    BY <2>1, <2>2, <2>3, <2>4 DEF IInv, SessionsOK, AuthedWasChecked, Proved, At
<1>11. QED
  BY <1>1, <1>2, <1>3, <1>4, <1>5, <1>6, <1>7, <1>8, <1>9, <1>10 DEF Next

\* With one worker, who is authenticated in a session proved to be that user there, and
\* has not logged out since.
THEOREM OneWorkerAuthedWasChecked ==
    ASSUME NEW CONSTANT me, Workers = {me}
    PROVE  Spec => []AuthedWasChecked
<1>1. Init => AuthedWasChecked /\ Proved
  BY NoneAssumption, IdleFits DEF Init, AuthedWasChecked, Proved, Fresh, AUTHED, At
<1>2. IInv /\ AuthedWasChecked /\ Proved /\ [Next]_vars => (AuthedWasChecked /\ Proved)'
  BY OneWorkerChecks
<1>3. QED
  BY <1>1, <1>2, InitIInv, NextIInv, PTL DEF Spec

\* The page that belongs under a key.
FitsKey(page, key) ==
    /\ page.locale = key.locale
    /\ page.user = IF key.type = AUTHED THEN key.id ELSE Anonymous

\* What a request knows of its page is still so: nobody else changes its session, and
\* the language changes only between two requests.
Knows ==
    \A w \in Workers :
        /\ At(w, "init") =>
              /\ request[w].key.locale = locale[w]
              /\ request[w].key.type = UserType(serving[w])
              /\ request[w].key.id = session[serving[w]].id
        /\ At(w, "store") => FitsKey(request[w].page, request[w].key)

\* A step after which the request is at a place where it knows nothing.
LEMMA KnowsNothing ==
    ASSUME NEW me, Workers = {me}, PagesFit, UNCHANGED pages, request'[me].at \notin {"init", "store"}
    PROVE  (PagesFit /\ Knows)'
BY DEF PagesFit, Knows, At

LEMMA OneWorkerKnows ==
    ASSUME NEW me, Workers = {me}, IInv, PagesFit, Knows, [Next]_vars
    PROVE  (PagesFit /\ Knows)'
<1> me \in Workers
  OBVIOUS
<1>1. CASE UNCHANGED vars
  BY <1>1 DEF vars, PagesFit, Knows, At, UserType
<1>2. CASE Build(me)
  BY <1>2 DEF Build, PagesFit, Knows, At, UserType
<1>3. ASSUME NEW s \in Sessions, Arrive(me, s) PROVE (PagesFit /\ Knows)'
  <2>1. request'[me].at \notin {"init", "store"}
    BY <1>3, PlaceAfter DEF Arrive, Idle
  <2>2. UNCHANGED pages
    BY <1>3 DEF Arrive
  <2>3. QED
    BY <2>1, <2>2, KnowsNothing
<1>4. CASE Post(me)
  <2>1. ~Throws(me)
    BY <1>4, ItsMine DEF Post, At
  <2>2. Goto(me, [Idle EXCEPT !.at = "key", !.remind = session[Its].remind]) /\ UNCHANGED pages
    BY <1>4, <2>1 DEF Post
  <2>3. request'[me].at = "key"
    BY <2>2, PlaceAfter DEF Idle
  <2>4. QED
    BY <2>2, <2>3, KnowsNothing
<1>5. CASE LookUp(me)
  <2>1. ~Throws(me) /\ Its = serving[me]
    BY <1>5, ItsMine DEF LookUp, At
  <2>2. CASE Finish(me) /\ UNCHANGED pages
    <3>1. request'[me].at = "idle"
      BY <2>2, PlaceAfter
    <3>2. QED
      BY <2>2, <3>1, KnowsNothing
  <2>3. CASE /\ Goto(me, [Idle EXCEPT !.at = "init", !.key = PageKey(me)])
             /\ UNCHANGED <<serving, session, locale, pages>>
    <3>1. request'[me].at = "init" /\ request'[me].key = PageKey(me)
      BY <2>3, PlaceAfter DEF Idle
    <3>2. /\ PageKey(me).locale = locale[me]
          /\ PageKey(me).type = UserType(serving[me])
          /\ PageKey(me).id = session[serving[me]].id
      BY <2>1 DEF PageKey
    <3>3. QED
      BY <2>3, <3>1, <3>2 DEF PagesFit, Knows, At, UserType
  <2>4. QED
    BY <1>5, <2>1, <2>2, <2>3 DEF LookUp
<1>6. CASE InitPage(me)
  <2>1. ~Throws(me) /\ Its = serving[me] /\ request[me] \in RequestType /\ At(me, "init")
    BY <1>6, ItsMine, InProgress DEF InitPage, At
  <2>2. PICK page : /\ page = [user |-> IF UserType(Its) = AUTHED THEN session[Its].id ELSE Anonymous,
                               locale |-> locale[me]]
                    /\ Goto(me, [request[me] EXCEPT !.at = "store", !.page = page])
                    /\ UNCHANGED pages
    BY <1>6, <2>1 DEF InitPage
  <2>3. request'[me].at = "store" /\ request'[me].key = request[me].key /\ request'[me].page = page
    BY <2>1, <2>2, PlaceAfter DEF RequestType
  <2>4. /\ page.locale = locale[me]
        /\ page.user = IF UserType(Its) = AUTHED THEN session[Its].id ELSE Anonymous
    BY <2>2
  <2>5. FitsKey(page, request[me].key)
    BY <2>1, <2>4 DEF Knows, FitsKey
  <2>6. QED
    BY <2>2, <2>3, <2>5 DEF PagesFit, Knows, FitsKey, At
<1>7. CASE Store(me)
  <2> DEFINE new == [key |-> request[me].key, page |-> request[me].page]
  <2>1. FitsKey(new.page, new.key)
    BY <1>7 DEF Store, Knows
  <2>2. pages' \subseteq pages \cup {new}
    BY <1>7 DEF Store
  <2> HIDE DEF new
  <2>3. PagesFit'
    BY <2>1, <2>2 DEF PagesFit, FitsKey
  <2>4. request'[me].at = "idle"
    BY <1>7, PlaceAfter DEF Store
  <2>5. QED
    BY <2>3, <2>4 DEF Knows, At
<1>8. CASE SetLocale(me)
  <2>1. request'[me].at = "idle" /\ UNCHANGED pages
    BY <1>8, PlaceAfter DEF SetLocale
  <2>2. QED
    BY <2>1, KnowsNothing
<1>9. ASSUME NEW ok \in BOOLEAN, CheckAccount(me, ok) PROVE (PagesFit /\ Knows)'
  <2>1. request[me] \in RequestType
    BY <1>9, InProgress DEF CheckAccount, At
  <2>2. request'[me] = [request[me] EXCEPT !.at = "login", !.ok = ok] /\ UNCHANGED pages
    BY <1>9, PlaceAfter DEF CheckAccount
  <2>3. request'[me].at = "login"
    BY <2>1, <2>2 DEF RequestType
  <2>4. QED
    BY <2>2, <2>3, KnowsNothing
<1>10. CASE Login(me) \/ Logout(me)
  <2>1. ~Throws(me)
    BY <1>10, ItsMine DEF Login, Logout, At
  <2>2. Finish(me) /\ UNCHANGED pages
    BY <1>10, <2>1 DEF Login, Logout
  <2>3. request'[me].at = "idle"
    BY <2>2, PlaceAfter
  <2>4. QED
    BY <2>2, <2>3, KnowsNothing
<1>11. QED
  BY <1>1, <1>2, <1>3, <1>4, <1>5, <1>6, <1>7, <1>8, <1>9, <1>10 DEF Next

\* With one worker, a cached page shows the user and the language that it is looked up
\* for, however many pages the cache holds and whoever rendered them.
THEOREM OneWorkerPagesFit ==
    ASSUME NEW CONSTANT me, Workers = {me}
    PROVE  Spec => []PagesFit
<1>1. Init => PagesFit /\ Knows
  BY IdleFits DEF Init, PagesFit, Knows, At
<1>2. IInv /\ PagesFit /\ Knows /\ [Next]_vars => (PagesFit /\ Knows)'
  BY OneWorkerKnows
<1>3. QED
  BY <1>1, <1>2, InitIInv, NextIInv, PTL DEF Spec
=============================================================================
