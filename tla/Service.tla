------------------------------ MODULE Service -------------------------------
(***************************************************************************)
(* The web application (apps::site, src/src/site.cpp) with the sessions of *)
(* its visitors (class Auth, src/module/auth.cpp), the page cache and the  *)
(* registry of modules (opncms/ioc.h).                                     *)
(*                                                                         *)
(* Each worker thread has a site of its own, with its own Data, Auth and   *)
(* View, and handles one request at a time.  The registry is one for the   *)
(* process and keeps the modules of the site built first: what a worker    *)
(* reaches through ioc::get<Auth>() is the Auth of that site, whose        *)
(* session() is the session of the request that site is handling.  A call  *)
(* of a method of Auth or View is one step here.                           *)
(*                                                                         *)
(* Data abstraction.  A session stands for its browser, which sends one    *)
(* request at a time, and for the address it has; a page is what depends   *)
(* on its visitor, the user and the language, at one path.  login and      *)
(* logout are what the user plugin (another repository) calls.             *)
(***************************************************************************)
EXTENDS FiniteSets, Naturals

CONSTANTS
    Workers,  \* worker_threads
    Sessions, \* browsers
    LocalSessions, \* those whose address is one of the server's
    Emails,   \* accounts that exist
    Locales,
    MaxPages, \* bound: pages in the cache
    None      \* no site, no session, no value

ASSUME SessionsAssumption == LocalSessions \subseteq Sessions
ASSUME NoneAssumption ==
    None \notin Workers \cup Sessions \cup Emails \cup Locales /\ None \notin Nat
ASSUME DistinctAssumption == Sessions \cap Emails = {}
ASSUME MaxPagesAssumption == MaxPages \in Nat \ {0}

VARIABLES
    built,      \* the workers whose site exists
    registered, \* the site whose modules the registry holds
    serving,    \* the session of the request that each site is handling
    session,    \* what each session stores
    locale,     \* the locale_name_ of the View of each site
    pages,      \* the page cache
    request,    \* what each worker is doing, with its local variables
    checked     \* history: the accounts each session proved to be its own since logout

vars == <<built, registered, serving, session, locale, pages, request, checked>>

UNAUTHED == 1
UNNAMED == 2
LOCAL_USER == 4 \* LOCAL in auth.h
AUTHED == 8
LocalId == "local"
Anonymous == "anonymous"

Ids == Emails \cup Sessions \cup {LocalId, None}
Session == [id : Ids, type : {UNAUTHED, UNNAMED, LOCAL_USER, AUTHED, None}, remind : BOOLEAN]
Fresh == [id |-> None, type |-> None, remind |-> FALSE]
Key == [id : Ids, type : {UNAUTHED, UNNAMED, LOCAL_USER, AUTHED}, remind : BOOLEAN, locale : Locales]
Page == [user : Ids \cup {Anonymous}, locale : Locales]

----------------------------------------------------------------------------
(* The methods of Auth, on the session s that they find.                   *)

UserType(s) == IF session[s].type = None THEN UNAUTHED ELSE session[s].type

\* do_auth(): a known id is left as it is, any other becomes the address.
DoAuth(s) ==
    IF session[s].id \in Emails THEN session[s]
    ELSE [session[s] EXCEPT !.id = IF s \in LocalSessions THEN LocalId ELSE s,
                            !.type = IF s \in LocalSessions THEN LOCAL_USER ELSE UNNAMED]

\* auth(): the session after it.
AfterAuth(s) == IF UserType(s) = UNAUTHED THEN DoAuth(s) ELSE session[s]

\* Mutant: the type of the user is left in the session.
AfterDeauthTyped(s) == [Fresh EXCEPT !.type = session[s].type]

\* deauth(), which clears the session in the end.
AfterDeauth(s) == Fresh

\* check(email, password), once the accounts have answered ok.
AfterCheck(s, email, ok) ==
    IF ok THEN [id |-> email, type |-> AUTHED, remind |-> FALSE]
    ELSE [session[s] EXCEPT !.remind = TRUE]

----------------------------------------------------------------------------
(* Requests.                                                               *)

Request == [at : {"idle", "post", "key", "init", "store", "check", "login", "logout", "locale"},
            key : Key \cup {None}, page : Page \cup {None}, remind : BOOLEAN,
            email : Emails \cup {None}, ok : BOOLEAN, locale : Locales \cup {None}]
Idle == [at |-> "idle", key |-> None, page |-> None, remind |-> FALSE,
         email |-> None, ok |-> FALSE, locale |-> None]
At(w, step) == request[w].at = step
Goto(w, r) == request' = [request EXCEPT ![w] = r]

\* The session that the registered Auth sees, None if its site has no request now.
Its == IF registered = None THEN None ELSE serving[registered]

\* Mutant: the site keeps its context when the request has ended.
FinishKeeps(w) == Goto(w, Idle) /\ UNCHANGED serving

Finish(w) ==
    /\ Goto(w, Idle)
    /\ serving' = [serving EXCEPT ![w] = None]

\* session() of an application that has no request throws: the request ends there.
Throws(w) ==
    /\ Its = None
    /\ Finish(w)
    /\ UNCHANGED <<built, registered, session, locale, pages, checked>>

\* ioc::add() keeps what was registered before.
Build(w) ==
    /\ w \notin built
    /\ built' = built \cup {w}
    /\ registered' = IF registered = None THEN w ELSE registered
    /\ UNCHANGED <<serving, session, locale, pages, request, checked>>

Arrive(w, s) ==
    /\ w \in built /\ At(w, "idle")
    /\ \A v \in Workers : serving[v] # s
    /\ serving' = [serving EXCEPT ![w] = s]
    /\ \/ Goto(w, [Idle EXCEPT !.at = "post"])
       \/ \E e \in Emails : Goto(w, [Idle EXCEPT !.at = "check", !.email = e])
       \/ Goto(w, [Idle EXCEPT !.at = "logout"])
       \/ \E l \in Locales : Goto(w, [Idle EXCEPT !.at = "locale", !.locale = l])
    /\ UNCHANGED <<built, registered, session, locale, pages, checked>>

\* display(): View::post calls auth() and remind().
Post(w) ==
    /\ At(w, "post")
    /\ \/ Throws(w)
       \/ /\ Its # None
          /\ session' = [session EXCEPT ![Its] = AfterAuth(Its)]
          /\ Goto(w, [Idle EXCEPT !.at = "key", !.remind = session[Its].remind])
          /\ UNCHANGED <<built, registered, serving, locale, pages, checked>>

\* Mutant: the page is looked up without the user.
PageKeyNoId(w) == [id |-> None, type |-> UserType(Its), remind |-> request[w].remind,
                   locale |-> locale[w]]

\* The type through the registry, id() and the locale of the site's own modules.
PageKey(w) == [id |-> session[serving[w]].id, type |-> UserType(Its),
               remind |-> request[w].remind, locale |-> locale[w]]

\* fetch_page: a page that is cached ends the request.
LookUp(w) ==
    /\ At(w, "key")
    /\ \/ Throws(w)
       \/ /\ Its # None
          /\ \E p \in pages : p.key = PageKey(w)
          /\ Finish(w)
          /\ UNCHANGED <<built, registered, session, locale, pages, checked>>
       \/ /\ Its # None
          /\ \A p \in pages : p.key # PageKey(w)
          /\ Goto(w, [Idle EXCEPT !.at = "init", !.key = PageKey(w)])
          /\ UNCHANGED <<built, registered, serving, session, locale, pages, checked>>

\* View::init: auth() once more, and the id of the authed.
InitPage(w) ==
    /\ At(w, "init")
    /\ \/ Throws(w)
       \/ /\ Its # None
          /\ session' = [session EXCEPT ![Its] = AfterAuth(Its)]
          /\ Goto(w, [request[w] EXCEPT
                !.at = "store",
                !.page = [user |-> IF UserType(Its) = AUTHED THEN session[Its].id ELSE Anonymous,
                          locale |-> locale[w]]])
          /\ UNCHANGED <<built, registered, serving, locale, pages, checked>>

\* render() and store_page(); a full cache drops another page.
Store(w) ==
    LET new == [key |-> request[w].key, page |-> request[w].page]
        others == {p \in pages : p.key # new.key} IN
    /\ At(w, "store")
    /\ \/ Cardinality(others) < MaxPages /\ pages' = others \cup {new}
       \/ /\ Cardinality(others) >= MaxPages
          /\ \E p \in others : pages' = (others \ {p}) \cup {new}
    /\ Finish(w)
    /\ UNCHANGED <<built, registered, session, locale, checked>>

\* Auth::check, first half: the accounts answer (see AuthData).
CheckAccount(w, ok) ==
    /\ At(w, "check")
    /\ Goto(w, [request[w] EXCEPT !.at = "login", !.ok = ok])
    /\ checked' = IF ok THEN [checked EXCEPT ![serving[w]] = @ \cup {request[w].email}] ELSE checked
    /\ UNCHANGED <<built, registered, serving, session, locale, pages>>

\* Auth::check, second half: the session.
Login(w) ==
    /\ At(w, "login")
    /\ \/ Throws(w)
       \/ /\ Its # None
          /\ session' = [session EXCEPT ![Its] = AfterCheck(Its, request[w].email, request[w].ok)]
          /\ Finish(w)
          /\ UNCHANGED <<built, registered, locale, pages, checked>>

Logout(w) ==
    /\ At(w, "logout")
    /\ \/ Throws(w)
       \/ /\ Its # None
          /\ session' = [session EXCEPT ![Its] = AfterDeauth(Its)]
          /\ checked' = [checked EXCEPT ![serving[w]] = {}]
          /\ Finish(w)
          /\ UNCHANGED <<built, registered, locale, pages>>

\* rpc set_locale: the View of the registered site keeps it for every later request.
SetLocale(w) ==
    /\ At(w, "locale")
    /\ locale' = [locale EXCEPT ![registered] = request[w].locale]
    /\ Finish(w)
    /\ UNCHANGED <<built, registered, session, pages, checked>>

----------------------------------------------------------------------------
\* init_lang(): the first of the languages of the configuration.
Init ==
    /\ built = {} /\ registered = None
    /\ serving = [w \in Workers |-> None]
    /\ session = [s \in Sessions |-> Fresh]
    /\ \E l \in Locales : locale = [w \in Workers |-> l]
    /\ pages = {}
    /\ request = [w \in Workers |-> Idle]
    /\ checked = [s \in Sessions |-> {}]

Next ==
    \E w \in Workers :
        \/ Build(w) \/ \E s \in Sessions : Arrive(w, s)
        \/ Post(w) \/ LookUp(w) \/ InitPage(w) \/ Store(w)
        \/ \E ok \in BOOLEAN : CheckAccount(w, ok)
        \/ Login(w) \/ Logout(w) \/ SetLocale(w)

Spec == Init /\ [][Next]_vars
----------------------------------------------------------------------------
(* Properties.                                                             *)

\* The registry holds the modules of a site that exists, and a site that handles a
\* request is built.
TypeOK ==
    /\ built \subseteq Workers /\ registered \in built \cup {None}
    /\ serving \in [Workers -> Sessions \cup {None}]
    /\ session \in [Sessions -> Session]
    /\ locale \in [Workers -> Locales]
    /\ pages \subseteq [key : Key, page : Page]
    /\ request \in [Workers -> Request]
    /\ checked \in [Sessions -> SUBSET Emails]
    /\ \A w \in Workers : (serving[w] # None) = (~At(w, "idle"))
    /\ built # {} => registered # None
    /\ \A w \in Workers : serving[w] # None => w \in built

\* A cached page shows the user and the language that it is looked up for, whoever
\* rendered it first.  Not so with two workers: the key is put together from two
\* sessions, and the language may change before the page is rendered.
PagesFit ==
    \A p \in pages :
        /\ p.page.locale = p.key.locale
        /\ p.page.user = IF p.key.type = AUTHED THEN p.key.id ELSE Anonymous

\* Who is authenticated in a session proved to be that user in a request of that
\* session, and has not logged out since.
AuthedWasChecked ==
    \A s \in Sessions : session[s].type = AUTHED => session[s].id \in checked[s]

\* A request changes its own session only ("Sets the authorization id for this
\* session", auth.h): not so when the registry holds the Auth of another worker.
OwnSessionOnly ==
    [][\A s \in Sessions :
          session'[s] # session[s] =>
              \E w \in Workers : serving[w] = s /\ request'[w] # request[w]]_vars
=============================================================================
