-------------------------------- MODULE Mail --------------------------------
(***************************************************************************)
(* Sending a mail: tools::send_email() (src/src/tools.cpp) over            *)
(* ESMTP::open(), send() and close() (src/src/esmtp.cpp), which keep the   *)
(* session, the message, the authentication context and the credentials in *)
(* static variables.  A call of the mail library is one step, so the calls *)
(* of worker threads mix.                                                  *)
(*                                                                         *)
(* Data abstraction.  The text of a mail and its recipient are the caller  *)
(* they are from.  Sessions and contexts are addresses, which are used     *)
(* again after they are destroyed.  The library (libESMTP) is external: it *)
(* may fail to create a session, a context, a message or a recipient, to   *)
(* take the context or to hold the conversation with the server, and it    *)
(* takes NULL without harm.  Use of what is destroyed stops the process or *)
(* does nothing.  send() copies a text of any length into a buffer of      *)
(* ESMTP_MAX_STR bytes: a longer one stops the process, is overwritten     *)
(* before it is sent, or does no harm.                                     *)
(***************************************************************************)
EXTENDS FiniteSets, Naturals

CONSTANTS
    Callers,   \* worker threads that send mail
    Addresses, \* of sessions and of contexts
    Null       \* no session, context, message or caller

ASSUME NullAssumption ==
    Null \notin Callers \cup Addresses \cup [s : Addresses, by : Callers]

VARIABLES
    session,   \* each address: the messages of the session there and its context
    contexts,  \* addresses of the contexts that exist
    session_, message_, authctx_, user_, \* the static variables
    at,        \* what each caller does next
    signed,    \* callers whose mail has a user and a password, until open() has seen it
    talking,   \* the session that each caller has started
    delivered, \* history: text, recipient and login of mails the server took, until close()
    crashed,   \* what was destroyed, NULL or too long when it was used
    overlapped, \* history: two calls were at work at once
    bare       \* history: a call made no context of its own

vars == <<session, contexts, session_, message_, authctx_, user_, at, signed, talking,
          delivered, crashed, overlapped, bare>>

Gone == [live |-> FALSE, messages |-> {}, context |-> Null]
Steps == {"idle", "user", "session", "context", "use context", "message", "text",
          "recipient", "start", "talking", "status", "destroy session", "destroy context"}
\* A message, told from others of the session by the caller that added it.
Message == [by : Callers, text : Callers \cup {Null, "overwritten"}, to : SUBSET Callers]
Handle == [s : Addresses, by : Callers]

Live(s) == s # Null /\ session[s].live
Dangling(s) == s # Null /\ ~session[s].live
Go(c, step) == at' = [at EXCEPT ![c] = step]

Crash(what) ==
    /\ crashed' = what
    /\ UNCHANGED <<session, contexts, session_, message_, authctx_, user_, at,
                   signed, talking, delivered, overlapped, bare>>

----------------------------------------------------------------------------
(* open()                                                                  *)

Begin(c) ==
    /\ at[c] = "idle"
    /\ signed' \in {signed, signed \cup {c}}
    /\ Go(c, "user")
    /\ overlapped' = (overlapped \/ \E d \in Callers : at[d] # "idle")
    /\ UNCHANGED <<session, contexts, session_, message_, authctx_, user_, talking,
                   delivered, crashed, bare>>

\* Mutant: the wrong argument is kept.
KeepOther(c) ==
    /\ at[c] = "user"
    /\ user_' = (c \in signed)
    /\ Go(c, "session")
    /\ UNCHANGED <<session, contexts, session_, message_, authctx_, signed, talking,
                   delivered, crashed, overlapped, bare>>

\* Mutant: user_ is kept only when there is one.
KeepUserIfAny(c) ==
    /\ at[c] = "user"
    /\ user_' = IF c \in signed THEN c ELSE user_
    /\ Go(c, "session")
    /\ UNCHANGED <<session, contexts, session_, message_, authctx_, signed, talking,
                   delivered, crashed, overlapped, bare>>

KeepUser(c) ==
    /\ at[c] = "user"
    /\ user_' = IF c \in signed THEN c ELSE Null
    /\ Go(c, "session")
    /\ UNCHANGED <<session, contexts, session_, message_, authctx_, signed, talking,
                   delivered, crashed, overlapped, bare>>

NewSession(c) ==
    \E s \in Addresses :
        /\ ~session[s].live
        /\ session_' = s
        /\ session' = [session EXCEPT ![s] = [Gone EXCEPT !.live = TRUE]]
        /\ Go(c, IF c \in signed THEN "context" ELSE "use context")
        /\ bare' = (bare \/ c \notin signed)

\* Mutant: session_ keeps its value when no session is created.
CreateSessionInPlace(c) ==
    /\ at[c] = "session"
    /\ signed' = signed \ {c}
    /\ \/ NewSession(c)
       \/ Go(c, "destroy session") /\ bare' = TRUE /\ UNCHANGED <<session, session_>>
    /\ UNCHANGED <<contexts, message_, authctx_, user_, talking, delivered,
                   crashed, overlapped>>

\* Without a session open() fails, and send_email() calls close().
CreateSession(c) ==
    /\ at[c] = "session"
    /\ signed' = signed \ {c}
    /\ \/ NewSession(c)
       \/ /\ session_' = Null
          /\ Go(c, "destroy session")
          /\ bare' = TRUE
          /\ UNCHANGED session
    /\ UNCHANGED <<contexts, message_, authctx_, user_, talking, delivered,
                   crashed, overlapped>>

CreateContext(c) ==
    /\ at[c] = "context"
    /\ \/ \E a \in Addresses \ contexts : authctx_' = a /\ contexts' = contexts \cup {a}
       \/ authctx_' = Null /\ UNCHANGED contexts
    /\ Go(c, "use context")
    /\ UNCHANGED <<session, session_, message_, user_, signed, talking, delivered,
                   crashed, overlapped, bare>>

\* smtp_auth_set_context(), with whatever authctx_ holds.
UseContext(c) ==
    /\ at[c] = "use context"
    /\ \/ /\ session' = [s \in Addresses |->
                IF s = session_ /\ Live(s) THEN [session[s] EXCEPT !.context = authctx_]
                ELSE session[s]]
          /\ Go(c, "message")
          /\ UNCHANGED <<contexts, session_, message_, authctx_, user_, signed,
                         talking, delivered, crashed, overlapped, bare>>
       \/ /\ Go(c, "destroy session")
          /\ UNCHANGED <<session, contexts, session_, message_, authctx_, user_,
                         signed, talking, delivered, crashed, overlapped, bare>>
       \/ Dangling(session_) /\ Crash("session")

----------------------------------------------------------------------------
(* send()                                                                  *)

AddMessage(c) ==
    /\ at[c] = "message"
    /\ \/ /\ Live(session_)
          /\ message_' = [s |-> session_, by |-> c]
          /\ session' = [session EXCEPT ![session_].messages =
                            @ \cup {[by |-> c, text |-> Null, to |-> {}]}]
          /\ Go(c, "text")
          /\ UNCHANGED <<contexts, session_, authctx_, user_, signed, talking,
                         delivered, crashed, overlapped, bare>>
       \/ /\ message_' = Null
          /\ Go(c, "text")
          /\ UNCHANGED <<session, contexts, session_, authctx_, user_, signed, talking,
                         delivered, crashed, overlapped, bare>>
       \/ Dangling(session_) /\ Crash("session")

\* The library is given message_, which exists as long as its session.
Lost == message_ # Null /\ ~session[message_.s].live

\* A change of the message that message_ points to.
ChangeMessage(change) ==
    session' =
        IF message_ = Null \/ Lost THEN session
        ELSE [session EXCEPT ![message_.s].messages =
                {IF m.by = message_.by THEN change[m] ELSE m : m \in @}]

\* strcpy() into the local buffer, to which the message then refers.
SetText(c) ==
    /\ at[c] = "text"
    /\ \/ /\ \E body \in {c, "overwritten"} :
                ChangeMessage([m \in Message |-> [m EXCEPT !.text = body]])
          /\ Go(c, "recipient")
          /\ UNCHANGED <<contexts, session_, message_, authctx_, user_, signed,
                         talking, delivered, crashed, overlapped, bare>>
       \/ Crash("text")
       \/ Lost /\ Crash("session")

AddRecipient(c) ==
    /\ at[c] = "recipient"
    /\ \/ /\ \/ ChangeMessage([m \in Message |-> [m EXCEPT !.to = @ \cup {c}]])
             \/ UNCHANGED session
          /\ Go(c, "start")
          /\ UNCHANGED <<contexts, session_, message_, authctx_, user_, signed,
                         talking, delivered, crashed, overlapped, bare>>
       \/ Lost /\ Crash("session")

\* smtp_start_session() begins the conversation with the session it is given, ...
Start(c) ==
    /\ at[c] = "start"
    /\ \/ /\ talking' = [talking EXCEPT ![c] = session_]
          /\ Go(c, "talking")
          /\ UNCHANGED <<session, contexts, session_, message_, authctx_, user_,
                         signed, delivered, crashed, overlapped, bare>>
       \/ Dangling(session_) /\ Crash("session")

\* What authinteract() gives for the user when the session has a context: it copies
\* user_ and then password_ into the same local array, and both results point there,
\* although it is gone.  A caller stands for the password that belongs to its user.
Logins(s) == IF session[s].context = Null THEN {Null} ELSE {user_, "undefined"}

\* What goes out with the messages of session s, ...
Sent(s, login) ==
    {[text |-> p[1].text, to |-> p[2], login |-> login] :
        p \in {q \in session[s].messages \X Callers : q[2] \in q[1].to}}

\* ... and returns when it is over, or has failed: send() returns false.
Talk(c) ==
    LET s == talking[c] IN
    /\ at[c] = "talking"
    /\ \/ /\ Live(s)
          /\ \E login \in Logins(s) : delivered' = Sent(s, login)
          /\ Go(c, "status")
          /\ talking' = [talking EXCEPT ![c] = Null]
          /\ UNCHANGED <<session, contexts, session_, message_, authctx_, user_,
                         signed, crashed, overlapped, bare>>
       \/ /\ Go(c, "destroy session")
          /\ talking' = [talking EXCEPT ![c] = Null]
          /\ UNCHANGED <<session, contexts, session_, message_, authctx_, user_,
                         signed, delivered, crashed, overlapped, bare>>
       \/ Dangling(s) /\ Crash("session")
       \/ /\ Live(s) /\ session[s].context \notin contexts \cup {Null}
          /\ Crash("context")

\* smtp_message_transfer_status(), whose result is used unchecked.
Status(c) ==
    /\ at[c] = "status"
    /\ \/ /\ message_ # Null
          /\ Go(c, "destroy session")
          /\ UNCHANGED <<session, contexts, session_, message_, authctx_, user_,
                         signed, talking, delivered, crashed, overlapped, bare>>
       \/ Lost /\ Crash("session")
       \/ message_ = Null /\ Crash("message")

----------------------------------------------------------------------------
(* close()                                                                 *)

DestroySession(c) ==
    /\ at[c] = "destroy session"
    /\ \/ /\ session' = [s \in Addresses |-> IF s = session_ THEN Gone ELSE session[s]]
          /\ delivered' = {}
          /\ Go(c, "destroy context")
          /\ UNCHANGED <<contexts, session_, message_, authctx_, user_, signed,
                         talking, crashed, overlapped, bare>>
       \/ Dangling(session_) /\ Crash("session")

\* Mutant: a context is left to the process.
KeepContext(c) ==
    /\ at[c] = "destroy context"
    /\ Go(c, "idle")
    /\ UNCHANGED <<session, contexts, session_, message_, authctx_, user_, signed,
                   talking, delivered, crashed, overlapped, bare>>

\* authctx_ keeps its value.
DestroyContext(c) ==
    /\ at[c] = "destroy context"
    /\ \/ /\ contexts' = contexts \ {authctx_}
          /\ Go(c, "idle")
          /\ UNCHANGED <<session, session_, message_, authctx_, user_, signed,
                         talking, delivered, crashed, overlapped, bare>>
       \/ authctx_ \notin contexts \cup {Null} /\ Crash("context")

----------------------------------------------------------------------------

Init ==
    /\ session = [s \in Addresses |-> Gone]
    /\ contexts = {}
    /\ session_ = Null /\ message_ = Null /\ authctx_ = Null /\ user_ = Null
    /\ at = [c \in Callers |-> "idle"]
    /\ signed = {}
    /\ talking = [c \in Callers |-> Null]
    /\ delivered = {} /\ crashed = "no" /\ overlapped = FALSE /\ bare = FALSE

Open(c) ==
    Begin(c) \/ KeepUser(c) \/ CreateSession(c) \/ CreateContext(c) \/ UseContext(c)
Send(c) ==
    AddMessage(c) \/ SetText(c) \/ AddRecipient(c) \/ Start(c) \/ Talk(c) \/ Status(c)
Close(c) == DestroySession(c) \/ DestroyContext(c)

Next == crashed = "no" /\ \E c \in Callers : Open(c) \/ Send(c) \/ Close(c)

Spec == Init /\ [][Next]_vars

----------------------------------------------------------------------------

TypeOK ==
    /\ session \in [Addresses -> [live : BOOLEAN, messages : SUBSET Message,
                                  context : Addresses \cup {Null}]]
    /\ contexts \in SUBSET Addresses
    /\ session_ \in Addresses \cup {Null} /\ authctx_ \in Addresses \cup {Null}
    /\ message_ \in Handle \cup {Null}
    /\ user_ \in Callers \cup {Null}
    /\ at \in [Callers -> Steps] /\ signed \subseteq Callers
    /\ talking \in [Callers -> Addresses \cup {Null}]
    /\ delivered \in SUBSET [text : Callers \cup {Null, "overwritten"}, to : Callers,
                             login : Callers \cup {Null, "undefined"}]
    /\ crashed \in {"no", "session", "context", "message", "text"}
    /\ overlapped \in BOOLEAN /\ bare \in BOOLEAN

(* As long as mails are sent one after the other, no session or message is   *)
(* used after its end, in whatever way open() or the conversation fail.  A   *)
(* context is only after a call that made none: send_email() without a user, *)
(* or with no session (esmtp.cpp:36-54, 77).  The process stops otherwise    *)
(* only where the result of the library is used unchecked and there is no    *)
(* message (esmtp.cpp:148), or at a text longer than the buffer (127).       *)
UseExplained ==
    ~overlapped =>
        /\ crashed # "session"
        /\ crashed = "context" => bare
        /\ crashed = "message" => message_ = Null /\ \E c \in Callers : at[c] = "status"
        /\ crashed = "text" => \E c \in Callers : at[c] = "text"

(* As long as mails are sent one after the other, each goes out to its own   *)
(* recipient, with its own text unless that was overwritten because it was   *)
(* too long; and where the server was given the credentials that the static  *)
(* variables hold, they are the mail's own and not those of an earlier one.  *)
DeliversOwn ==
    ~overlapped => \A d \in delivered :
        /\ d.text \in {d.to, "overwritten"}
        /\ d.login \in {Null, "undefined", d.to}

(* As long as mails are sent one after the other, nothing is left between    *)
(* them: close() finds what open() made, wherever open() or send() failed.   *)
NothingLeft ==
    ~overlapped /\ (\A c \in Callers : at[c] = "idle") =>
        contexts = {} /\ \A s \in Addresses : ~session[s].live
=============================================================================
