---------------------------- MODULE Tools_proof ----------------------------
(***************************************************************************)
(* What is proved of tools (src/src/tools.cpp): sending mails (Mail) and   *)
(* converting texts (Conversions).                                         *)
(*                                                                         *)
(* Mail is type correct for any number of callers, and what it promises of *)
(* mails sent one after the other holds for any number of callers and      *)
(* addresses, and whatever the library refuses.  The promises are about    *)
(* the end of a mail; the invariant says what is there in between:         *)
(* Phase(c) tells, for the one caller at work, which session and context   *)
(* exist, which message and user they carry, and that the static variables *)
(* point to them.                                                          *)
(*                                                                         *)
(* Conversions: base64 and hexadecimal give every text back.  The state is *)
(* any text, so there is nothing to find but arithmetic: byte r of group k *)
(* comes back from characters r and r + 1 of that group, which are never   *)
(* padding.  Splitting and replacing go from position to position, as      *)
(* recursive functions; ChainIs and ChainIsOne say that there is one and   *)
(* only one function for such a recursion (by a least and a greatest       *)
(* counterexample, as no induction theorem can be used), and what each of  *)
(* them computes is then shown of the function in place of the recursion.  *)
(***************************************************************************)
EXTENDS Mail, Conversions, NaturalsInduction, SequenceTheorems, WellFoundedInduction, TLAPS

SessionType == [live : BOOLEAN, messages : SUBSET Message, context : Addresses \cup {Null}]
MailType == [text : Callers \cup {Null, "overwritten"}, to : Callers,
             login : Callers \cup {Null, "undefined"}]

----------------------------------------------------------------------------
(* Type correctness.                                                       *)

LEMMA GoneType == Gone \in SessionType /\ ~Gone.live
  BY DEF Gone, SessionType

\* A change of messages into messages keeps the sessions typed.
LEMMA ChangeType ==
    ASSUME TypeOK, NEW change \in [Message -> Message], ChangeMessage(change)
    PROVE  session' \in [Addresses -> SessionType]
<1>0. session \in [Addresses -> SessionType]
  BY DEF TypeOK, SessionType
<1>1. CASE message_ = Null \/ Lost
  BY <1>0, <1>1 DEF ChangeMessage
<1>2. CASE ~(message_ = Null \/ Lost)
  <2>1. message_ \in Handle /\ message_.s \in Addresses
    BY <1>2 DEF TypeOK, Handle
  <2> DEFINE x == message_.s
             new == {IF m.by = message_.by THEN change[m] ELSE m : m \in session[x].messages}
  <2>2. session' = [session EXCEPT ![x].messages = new]
    BY <1>2 DEF ChangeMessage
  <2>3. session[x] \in SessionType
    BY <1>0, <2>1
  <2>4. new \in SUBSET Message
    BY <2>3 DEF SessionType
  <2>5. [session[x] EXCEPT !.messages = new] \in SessionType
    BY <2>3, <2>4 DEF SessionType
  <2>6. session' = [session EXCEPT ![x] = [session[x] EXCEPT !.messages = new]]
    BY <2>2
  <2> QED
    BY <1>0, <2>1, <2>5, <2>6
<1>3. QED
  BY <1>1, <1>2

LEMMA CrashType ==
    ASSUME TypeOK, NEW what \in {"session", "context", "message", "text"}, Crash(what)
    PROVE  TypeOK'
  BY DEF TypeOK, Crash

LEMMA SentType ==
    ASSUME TypeOK, NEW s \in Addresses, NEW login \in Logins(s)
    PROVE  Sent(s, login) \in SUBSET MailType
<1>1. session[s].messages \in SUBSET Message /\ user_ \in Callers \cup {Null}
  BY DEF TypeOK
<1>2. login \in Callers \cup {Null, "undefined"}
  BY <1>1 DEF Logins
<1>3. QED
  BY <1>1, <1>2 DEF Sent, MailType, Message

LEMMA OpenType ==
    ASSUME TypeOK, NEW c \in Callers, Open(c)
    PROVE  TypeOK'
<1>0. session \in [Addresses -> SessionType]
  BY DEF TypeOK, SessionType
<1>1. CASE Begin(c)
  BY <1>1 DEF TypeOK, Begin, Go, Steps
<1>2. CASE KeepUser(c)
  BY <1>2 DEF TypeOK, KeepUser, Go, Steps
<1>3. CASE CreateSession(c)
  <2>1. CASE NewSession(c)
    <3>1. PICK s \in Addresses : /\ session_' = s
                                 /\ session' = [session EXCEPT ![s] = [Gone EXCEPT !.live = TRUE]]
      BY <2>1 DEF NewSession
    <3>2. [Gone EXCEPT !.live = TRUE] \in SessionType
      BY DEF Gone, SessionType
    <3>3. session' \in [Addresses -> SessionType]
      BY <1>0, <3>1, <3>2
    <3>4. at' \in [Callers -> Steps] /\ bare' \in BOOLEAN
      BY <2>1 DEF TypeOK, NewSession, Go, Steps
    <3> QED
      BY <1>3, <3>1, <3>3, <3>4 DEF TypeOK, CreateSession, SessionType
  <2>2. CASE ~NewSession(c)
    BY <1>3, <2>2 DEF TypeOK, CreateSession, Go, Steps
  <2> QED
    BY <2>1, <2>2
<1>4. CASE CreateContext(c)
  BY <1>4 DEF TypeOK, CreateContext, Go, Steps
<1>5. CASE UseContext(c)
  <2>1. CASE Crash("session")
    BY <2>1, CrashType
  <2>2. CASE ~Crash("session")
    <3>1. session' \in [Addresses -> SessionType]
      <4>1. authctx_ \in Addresses \cup {Null}
        BY DEF TypeOK
      <4>2. ASSUME NEW s \in Addresses
            PROVE  [session[s] EXCEPT !.context = authctx_] \in SessionType
        BY <1>0, <4>1 DEF SessionType
      <4>3. QED
        BY <1>0, <1>5, <2>2, <4>2 DEF UseContext
    <3>2. at' \in [Callers -> Steps]
      BY <1>5, <2>2 DEF TypeOK, UseContext, Go, Steps
    <3> QED
      BY <1>5, <2>2, <3>1, <3>2 DEF TypeOK, UseContext, SessionType
  <2> QED
    BY <2>1, <2>2
<1>6. QED
  BY <1>1, <1>2, <1>3, <1>4, <1>5 DEF Open

LEMMA SendType ==
    ASSUME TypeOK, NEW c \in Callers, Send(c)
    PROVE  TypeOK'
<1>0. session \in [Addresses -> SessionType]
  BY DEF TypeOK, SessionType
<1>1. CASE AddMessage(c)
  <2>1. CASE Crash("session")
    BY <2>1, CrashType
  <2>2. CASE ~Crash("session")
    <3>1. session' \in [Addresses -> SessionType]
      <4>1. [by |-> c, text |-> Null, to |-> {}] \in Message
        BY DEF Message
      <4>2. CASE UNCHANGED session
        BY <1>0, <4>2
      <4>3. CASE session' = [session EXCEPT ![session_].messages =
                                @ \cup {[by |-> c, text |-> Null, to |-> {}]}]
        <5>1. ASSUME session_ \in Addresses
              PROVE  [session[session_] EXCEPT !.messages =
                            @ \cup {[by |-> c, text |-> Null, to |-> {}]}] \in SessionType
          BY <1>0, <4>1, <5>1 DEF SessionType
        <5>2. QED
          BY <1>0, <4>3, <5>1
      <4>4. QED
        BY <1>1, <2>2, <4>2, <4>3 DEF AddMessage
    <3>2. message_' \in Handle \cup {Null}
      BY <1>1, <2>2 DEF TypeOK, AddMessage, Live, Handle
    <3>3. at' \in [Callers -> Steps]
      BY <1>1, <2>2 DEF TypeOK, AddMessage, Go, Steps
    <3> QED
      BY <1>1, <2>2, <3>1, <3>2, <3>3 DEF TypeOK, AddMessage, SessionType
  <2> QED
    BY <2>1, <2>2
<1>2. CASE SetText(c)
  <2>1. CASE Crash("session") \/ Crash("text")
    BY <2>1, CrashType
  <2>2. CASE ~(Crash("session") \/ Crash("text"))
    <3>1. PICK body \in {c, "overwritten"} :
             ChangeMessage([m \in Message |-> [m EXCEPT !.text = body]])
      BY <1>2, <2>2 DEF SetText
    <3> DEFINE change == [m \in Message |-> [m EXCEPT !.text = body]]
    <3>2. change \in [Message -> Message]
      BY DEF Message
    <3>3. session' \in [Addresses -> SessionType]
      BY <3>1, <3>2, ChangeType
    <3>4. at' \in [Callers -> Steps]
      BY <1>2, <2>2 DEF TypeOK, SetText, Go, Steps
    <3> QED
      BY <1>2, <2>2, <3>3, <3>4 DEF TypeOK, SetText, SessionType
  <2> QED
    BY <2>1, <2>2
<1>3. CASE AddRecipient(c)
  <2>1. CASE Crash("session")
    BY <2>1, CrashType
  <2>2. CASE ~Crash("session")
    <3> DEFINE change == [m \in Message |-> [m EXCEPT !.to = @ \cup {c}]]
    <3>1. change \in [Message -> Message]
      BY DEF Message
    <3>2. ChangeMessage(change) \/ UNCHANGED session
      BY <1>3, <2>2 DEF AddRecipient
    <3>3. session' \in [Addresses -> SessionType]
      BY <1>0, <3>1, <3>2, ChangeType
    <3>4. at' \in [Callers -> Steps]
      BY <1>3, <2>2 DEF TypeOK, AddRecipient, Go, Steps
    <3> QED
      BY <1>3, <2>2, <3>3, <3>4 DEF TypeOK, AddRecipient, SessionType
  <2> QED
    BY <2>1, <2>2
<1>4. CASE Start(c)
  BY <1>4, CrashType, ZenonT(40) DEF TypeOK, Start, Go, Steps
<1>5. CASE Talk(c)
  <2>1. CASE Crash("session") \/ Crash("context")
    BY <2>1, CrashType
  <2>2. CASE ~(Crash("session") \/ Crash("context"))
    <3>1. delivered' \in SUBSET MailType
      <4>1. delivered \in SUBSET MailType
        BY DEF TypeOK, MailType
      <4>2. Live(talking[c]) => talking[c] \in Addresses
        BY DEF Live, TypeOK
      <4> QED
        BY <1>5, <2>2, <4>1, <4>2, SentType DEF Talk
    <3>2. at' \in [Callers -> Steps] /\ talking' \in [Callers -> Addresses \cup {Null}]
      BY <1>5, <2>2 DEF TypeOK, Talk, Go, Steps
    <3> QED
      BY <1>5, <2>2, <3>1, <3>2 DEF TypeOK, Talk, MailType
  <2> QED
    BY <2>1, <2>2
<1>6. CASE Status(c)
  BY <1>6, CrashType DEF TypeOK, Status, Go, Steps
<1>7. QED
  BY <1>1, <1>2, <1>3, <1>4, <1>5, <1>6 DEF Send

LEMMA CloseType ==
    ASSUME TypeOK, NEW c \in Callers, Close(c)
    PROVE  TypeOK'
<1>0. session \in [Addresses -> SessionType]
  BY DEF TypeOK, SessionType
<1>1. CASE DestroySession(c)
  <2>1. CASE Crash("session")
    BY <2>1, CrashType
  <2>2. CASE ~Crash("session")
    <3>1. session' \in [Addresses -> SessionType]
      BY <1>0, <1>1, <2>2, GoneType DEF DestroySession
    <3>2. at' \in [Callers -> Steps]
      BY <1>1, <2>2 DEF TypeOK, DestroySession, Go, Steps
    <3> QED
      BY <1>1, <2>2, <3>1, <3>2 DEF TypeOK, DestroySession, SessionType
  <2> QED
    BY <2>1, <2>2
<1>2. CASE DestroyContext(c)
  BY <1>2, CrashType DEF TypeOK, DestroyContext, Go, Steps
<1>3. QED
  BY <1>1, <1>2 DEF Close

LEMMA InitType == Init => TypeOK
<1> SUFFICES ASSUME Init PROVE TypeOK
  OBVIOUS
<1>1. session \in [Addresses -> SessionType]
  BY GoneType DEF Init
<1>2. QED
  BY <1>1 DEF Init, TypeOK, SessionType, Steps

LEMMA NextType == TypeOK /\ [Next]_vars => TypeOK'
<1> SUFFICES ASSUME TypeOK, [Next]_vars PROVE TypeOK'
  OBVIOUS
<1>1. ASSUME NEW c \in Callers, Open(c) \/ Send(c) \/ Close(c) PROVE TypeOK'
  BY <1>1, OpenType, SendType, CloseType
<1>2. CASE UNCHANGED vars
  BY <1>2 DEF vars, TypeOK
<1>3. QED
  BY <1>1, <1>2 DEF Next

\* The static variables, sessions and contexts stay typed, however the calls of any
\* number of threads mix.
THEOREM MailTypeCorrect == Spec => []TypeOK
<1>1. QED
  BY InitType, NextType, PTL DEF Spec

----------------------------------------------------------------------------
(* Mails sent one after the other.                                         *)

Clean == contexts = {} /\ \A s \in Addresses : ~session[s].live

WithSession == {"context", "use context", "message", "text", "recipient", "start", "talking",
                "status"}
WithContext == {"use context", "message", "text", "recipient", "start", "talking", "status",
                "destroy session", "destroy context"}

\* The one message of the session is the caller's, with one of the texts and one of
\* the lists of recipients, or none could be added.
Carries(c, texts, lists) ==
    \/ /\ message_ = [s |-> session_, by |-> c]
       /\ \E body \in texts, to \in lists :
             session[session_].messages = {[by |-> c, text |-> body, to |-> to]}
    \/ message_ = Null /\ session[session_].messages = {}

\* What the caller at work finds at each step.
Phase(c) ==
    /\ at[c] \in {"user", "session"} => Clean
    /\ at[c] = "context" => contexts = {}
    /\ at[c] \in WithContext =>
          contexts \subseteq {authctx_} /\ (bare \/ authctx_ \in contexts \cup {Null})
    /\ at[c] \in WithSession => Live(session_)
    /\ at[c] \in WithSession \cup {"destroy session"} =>
          /\ ~Dangling(session_)
          /\ \A s \in Addresses : session[s].live => s = session_
    /\ at[c] = "destroy context" => \A s \in Addresses : ~session[s].live
    /\ at[c] \in {"context", "use context", "message"} => session[session_].messages = {}
    /\ at[c] = "text" => Carries(c, {Null}, {{}})
    /\ at[c] = "recipient" => Carries(c, {c, "overwritten"}, {{}})
    /\ at[c] \in {"start", "talking"} => Carries(c, {c, "overwritten"}, {{}, {c}})
    /\ at[c] = "status" => message_ \in {Null, [s |-> session_, by |-> c]}
    /\ at[c] \in {"message", "text", "recipient", "start", "talking"} =>
          session[session_].context = authctx_
    /\ at[c] = "talking" => talking[c] = session_
    /\ at[c] \notin {"idle", "user"} => user_ \in {Null, c}

\* One caller is at work at a time, and nothing is left between two.
OneByOne ==
    /\ \A c, d \in Callers : at[c] # "idle" /\ at[d] # "idle" => c = d
    /\ (\A c \in Callers : at[c] = "idle") => Clean

OwnMail(d) == d.text \in {d.to, "overwritten"} /\ d.login \in {Null, "undefined", d.to}
Own == \A d \in delivered : OwnMail(d)
Explained ==
    /\ crashed # "session"
    /\ crashed = "context" => bare
    /\ crashed = "message" => message_ = Null /\ \E c \in Callers : at[c] = "status"
    /\ crashed = "text" => \E c \in Callers : at[c] = "text"

Alone == OneByOne /\ (\A c \in Callers : Phase(c)) /\ Own /\ Explained

\* A step of the caller at work: the other callers stay where they are.
LEMMA StepAlone ==
    ASSUME TypeOK, OneByOne, NEW c \in Callers, at[c] # "idle", NEW x, Go(c, x),
           x = "idle" => Clean', Phase(c)', Own', Explained'
    PROVE  Alone'
<1>1. at'[c] = x /\ \A d \in Callers : d # c => at'[d] = "idle"
  BY DEF TypeOK, Go, OneByOne
<1>2. OneByOne'
  BY <1>1 DEF OneByOne
<1>3. ASSUME NEW d \in Callers, d # c PROVE Phase(d)'
  BY <1>1, <1>3 DEF Phase, WithSession, WithContext
<1>4. QED
  BY <1>2, <1>3 DEF Alone

\* Undefined behaviour changes nothing of what the invariant says.
LEMMA CrashAlone ==
    ASSUME Alone, NEW what, Crash(what), Explained'
    PROVE  Alone'
<1>1. \A c \in Callers : Phase(c)'
  BY DEF Alone, Crash, Phase, Carries, Clean, Live, Dangling
<1>2. QED
  BY <1>1 DEF Alone, Crash, OneByOne, Own, Clean

LEMMA BeginAlone ==
    ASSUME TypeOK, Alone, crashed = "no", NEW c \in Callers, Begin(c), ~overlapped'
    PROVE  Alone'
<1>1. \A d \in Callers : at[d] = "idle"
  BY DEF Begin
<1>2. at'[c] = "user" /\ \A d \in Callers : d # c => at'[d] = "idle"
  BY <1>1 DEF Begin, Go, TypeOK
<1>3. Clean'
  BY <1>1 DEF Alone, OneByOne, Begin, Clean
<1>4. \A d \in Callers : Phase(d)'
  BY <1>2, <1>3 DEF Phase, WithSession, WithContext
<1>5. OneByOne' /\ Own' /\ Explained'
  BY <1>2, <1>3 DEF Alone, OneByOne, Own, Explained, Begin
<1>6. QED
  BY <1>4, <1>5 DEF Alone

LEMMA OpenAlone ==
    ASSUME TypeOK, Alone, crashed = "no", NEW c \in Callers, Open(c), ~overlapped'
    PROVE  Alone'
<1>0. OneByOne /\ Phase(c) /\ Own /\ Explained
  BY DEF Alone
<1>1. CASE Begin(c)
  BY <1>1, BeginAlone
<1>2. CASE KeepUser(c)
  <2>1. at[c] = "user" /\ Go(c, "session") /\ at'[c] = "session"
    BY <1>2 DEF KeepUser, Go, TypeOK
  <2>2. Clean'
    BY <1>0, <1>2, <2>1 DEF Phase, Clean, KeepUser
  <2>3. Phase(c)'
    BY <1>2, <2>1, <2>2 DEF Phase, WithSession, WithContext, KeepUser
  <2>4. Own' /\ Explained'
    BY <1>0, <1>2 DEF KeepUser, Own, Explained
  <2>5. QED
    BY <1>0, <2>1, <2>3, <2>4, StepAlone
<1>3. CASE CreateSession(c)
  <2>0. at[c] = "session" /\ Clean /\ user_ \in {Null, c}
    BY <1>0, <1>3 DEF CreateSession, Phase
  <2>1. Own' /\ Explained'
    BY <1>0, <1>3 DEF CreateSession, NewSession, Own, Explained
  <2>2. CASE NewSession(c)
    <3>1. PICK s \in Addresses : /\ session_' = s
                                 /\ session' = [session EXCEPT ![s] = [Gone EXCEPT !.live = TRUE]]
      BY <2>2 DEF NewSession
    <3> DEFINE x == IF c \in signed THEN "context" ELSE "use context"
    <3>2. Go(c, x) /\ at'[c] = x
      BY <2>2 DEF NewSession, Go, TypeOK
    <3>3. /\ session'[s].live /\ session'[s].messages = {}
          /\ \A r \in Addresses : session'[r].live => r = s
          /\ Live(session_)' /\ ~Dangling(session_)'
      BY <2>0, <3>1, NullAssumption DEF Clean, TypeOK, Gone, Live, Dangling
    <3>4. contexts' = {} /\ authctx_' = authctx_ /\ user_' = user_
      BY <1>3, <2>0 DEF CreateSession, Clean
    <3>5. x = "use context" => bare'
      BY <2>2 DEF NewSession
    <3>6. Phase(c)'
      BY <2>0, <3>1, <3>2, <3>3, <3>4, <3>5 DEF Phase, WithSession, WithContext
    <3>7. QED
      BY <1>0, <2>0, <2>1, <3>2, <3>6, StepAlone
  <2>3. CASE ~NewSession(c)
    <3>1. /\ session_' = Null /\ Go(c, "destroy session") /\ bare' /\ session' = session
          /\ contexts' = contexts /\ authctx_' = authctx_ /\ user_' = user_
      BY <1>3, <2>3 DEF CreateSession
    <3>2. at'[c] = "destroy session"
      BY <3>1 DEF Go, TypeOK
    <3>3. Phase(c)'
      BY <2>0, <3>1, <3>2 DEF Phase, WithSession, WithContext, Clean, Dangling
    <3>4. QED
      BY <1>0, <2>0, <2>1, <3>1, <3>3, StepAlone
  <2>4. QED
    BY <2>2, <2>3
<1>4. CASE CreateContext(c)
  <2>0. /\ at[c] = "context" /\ contexts = {} /\ Live(session_) /\ ~Dangling(session_)
        /\ \A s \in Addresses : session[s].live => s = session_
        /\ session[session_].messages = {} /\ user_ \in {Null, c}
    BY <1>0, <1>4 DEF CreateContext, Phase, WithSession
  <2>1. Go(c, "use context") /\ at'[c] = "use context"
    BY <1>4 DEF CreateContext, Go, TypeOK
  <2>2. /\ contexts' \subseteq {authctx_'} /\ authctx_' \in contexts' \cup {Null}
        /\ UNCHANGED <<session, session_, user_, bare>>
    BY <1>4, <2>0 DEF CreateContext
  <2>3. Phase(c)'
    BY <2>0, <2>1, <2>2 DEF Phase, WithSession, WithContext, Live, Dangling
  <2>4. Own' /\ Explained'
    BY <1>0, <1>4 DEF CreateContext, Own, Explained
  <2>5. QED
    BY <1>0, <2>0, <2>1, <2>3, <2>4, StepAlone
<1>5. CASE UseContext(c)
  <2>0. /\ at[c] = "use context" /\ contexts \subseteq {authctx_} /\ (bare \/ authctx_ \in contexts \cup {Null})
        /\ Live(session_) /\ ~Dangling(session_)
        /\ \A s \in Addresses : session[s].live => s = session_
        /\ session[session_].messages = {} /\ user_ \in {Null, c}
    BY <1>0, <1>5 DEF UseContext, Phase, WithSession, WithContext
  <2>1. Own' /\ Explained'
    BY <1>0, <1>5, <2>0 DEF UseContext, Own, Explained
  <2>2. UNCHANGED <<contexts, authctx_, session_, user_, bare>>
    BY <1>5, <2>0 DEF UseContext
  <2>3. session_ \in Addresses
    BY <2>0 DEF TypeOK, Live
  <2>4. CASE Go(c, "message") /\ session' = [s \in Addresses |->
                IF s = session_ /\ Live(s) THEN [session[s] EXCEPT !.context = authctx_]
                ELSE session[s]]
    <3>1. at'[c] = "message"
      BY <2>4 DEF Go, TypeOK
    <3>2. session'[session_] = [session[session_] EXCEPT !.context = authctx_]
      BY <2>0, <2>3, <2>4
    <3>3. /\ session'[session_].live /\ session'[session_].messages = {}
          /\ session'[session_].context = authctx_
      BY <2>0, <2>3, <3>2 DEF TypeOK, Live
    <3>4. \A s \in Addresses : session'[s].live => s = session_
      BY <2>0, <2>4
    <3>5. Live(session_)' /\ ~Dangling(session_)'
      BY <2>0, <2>2, <3>3 DEF Live, Dangling
    <3>6. Phase(c)'
      BY <2>0, <2>2, <3>1, <3>3, <3>4, <3>5 DEF Phase, WithSession, WithContext
    <3>7. QED
      BY <1>0, <2>0, <2>1, <2>4, <3>6, StepAlone
  <2>5. CASE Go(c, "destroy session") /\ session' = session
    <3>1. at'[c] = "destroy session"
      BY <2>5 DEF Go, TypeOK
    <3>2. Phase(c)'
      BY <2>0, <2>2, <2>5, <3>1 DEF Phase, WithSession, WithContext, Dangling
    <3>3. QED
      BY <1>0, <2>0, <2>1, <2>5, <3>2, StepAlone
  <2>6. QED
    BY <1>5, <2>0, <2>4, <2>5 DEF UseContext
<1>6. QED
  BY <1>1, <1>2, <1>3, <1>4, <1>5 DEF Open

\* What the caller at work has between open() and the end of the conversation.
Opened(c) ==
    /\ contexts \subseteq {authctx_} /\ (bare \/ authctx_ \in contexts \cup {Null})
    /\ session_ \in Addresses /\ session[session_].live
    /\ \A s \in Addresses : session[s].live => s = session_
    /\ user_ \in {Null, c}

LEMMA HasOpened ==
    ASSUME TypeOK, NEW c \in Callers, Phase(c), at[c] \in WithSession \ {"context"},
           at[c] # "session", at[c] # "idle", at[c] # "user"
    PROVE  Opened(c) /\ Live(session_) /\ ~Dangling(session_)
  BY DEF Phase, WithSession, WithContext, Opened, Live, TypeOK

LEMMA HasMessage ==
    ASSUME TypeOK, NEW c \in Callers, Opened(c), message_ = [s |-> session_, by |-> c]
    PROVE  message_ # Null /\ message_.s = session_ /\ message_.by = c /\ ~Lost
<1>1. message_ \in Handle
  BY DEF Opened, Handle
<1>2. QED
  BY <1>1, NullAssumption DEF Opened, Handle, Lost

\* A change of the one message, made through message_.
LEMMA ChangeAlone ==
    ASSUME TypeOK, NEW c \in Callers, Opened(c), message_ = [s |-> session_, by |-> c],
           NEW change, NEW m \in Message, m.by = c, session[session_].messages = {m},
           ChangeMessage(change), UNCHANGED <<contexts, session_, authctx_, user_, bare>>
    PROVE  /\ Opened(c)'
           /\ session'[session_].messages = {change[m]}
           /\ session'[session_].context = session[session_].context
<1> DEFINE new == {IF n.by = c THEN change[n] ELSE n : n \in {m}}
<1>1. new = {change[m]}
  OBVIOUS
<1>2. session' = [session EXCEPT ![session_].messages = new]
  <2>1. message_ # Null /\ message_.s = session_ /\ message_.by = c /\ ~Lost
    BY HasMessage
  <2>2. session' = [session EXCEPT ![message_.s].messages =
                        {IF n.by = message_.by THEN change[n] ELSE n : n \in @}]
    BY <2>1 DEF ChangeMessage
  <2>3. session[message_.s].messages = {m}
    BY <2>1
  <2>4. QED
    BY <2>1, <2>2, <2>3
<1> HIDE DEF new
<1>3. session_ \in Addresses /\ session[session_].live
  BY DEF Opened
<1>4. /\ session \in [Addresses -> SessionType]
      /\ session[session_] \in SessionType
  BY <1>3 DEF TypeOK, SessionType
<1>5. session'[session_] = [session[session_] EXCEPT !.messages = new]
  BY <1>2, <1>3, <1>4
<1>6. /\ session'[session_].live /\ session'[session_].messages = new
      /\ session'[session_].context = session[session_].context
  BY <1>3, <1>4, <1>5 DEF SessionType
<1>7. \A s \in Addresses : s # session_ => session'[s] = session[s]
  BY <1>2, <1>4
<1>8. Opened(c)'
  BY <1>3, <1>6, <1>7 DEF Opened
<1>9. QED
  BY <1>1, <1>6, <1>8

\* What there is of the message after a step of send() that has changed it or not.
LEMMA StillOpened ==
    ASSUME TypeOK, NEW c \in Callers, Opened(c),
           UNCHANGED <<session, contexts, session_, authctx_, user_, bare>>
    PROVE  Opened(c)'
  BY DEF Opened

LEMMA AddMessageAlone ==
    ASSUME TypeOK, Alone, crashed = "no", NEW c \in Callers, AddMessage(c)
    PROVE  Alone'
<1>0. OneByOne /\ Phase(c) /\ Own /\ Explained /\ at[c] = "message"
  BY DEF Alone, AddMessage
<1>1. Opened(c) /\ Live(session_) /\ ~Dangling(session_)
  BY <1>0, HasOpened DEF WithSession
<1>2. session[session_].messages = {} /\ session[session_].context = authctx_
  BY <1>0 DEF Phase
<1> DEFINE m == [by |-> c, text |-> Null, to |-> {}]
<1>3. /\ Go(c, "text") /\ UNCHANGED <<contexts, session_, authctx_, user_, bare, delivered, crashed>>
      /\ \/ /\ message_' = [s |-> session_, by |-> c]
            /\ session' = [session EXCEPT ![session_].messages = @ \cup {m}]
         \/ message_' = Null /\ session' = session
  BY <1>1 DEF AddMessage
<1>4. session_ \in Addresses /\ session[session_] \in SessionType
      /\ session \in [Addresses -> SessionType]
  BY <1>1 DEF Opened, TypeOK, SessionType
<1>5. at'[c] = "text"
  BY <1>3 DEF Go, TypeOK
<1>6. /\ Opened(c)' /\ Carries(c, {Null}, {{}})'
      /\ session'[session_].context = authctx_
  <2>1. CASE message_' = Null /\ session' = session
    BY <1>1, <1>2, <1>3, <2>1, StillOpened DEF Carries
  <2>2. CASE /\ message_' = [s |-> session_, by |-> c]
             /\ session' = [session EXCEPT ![session_].messages = @ \cup {m}]
    <3> HIDE DEF m
    <3>1. session'[session_] = [session[session_] EXCEPT !.messages = @ \cup {m}]
      BY <1>4, <2>2
    <3>2. /\ session'[session_].live /\ session'[session_].messages = {m}
          /\ session'[session_].context = authctx_
      BY <1>1, <1>2, <1>4, <3>1 DEF SessionType, Opened
    <3>3. \A s \in Addresses : s # session_ => session'[s] = session[s]
      BY <1>4, <2>2
    <3>4. Opened(c)'
      BY <1>1, <1>3, <3>2, <3>3 DEF Opened
    <3>5. Carries(c, {Null}, {{}})'
      BY <1>3, <2>2, <3>2 DEF Carries, m
    <3>6. QED
      BY <3>2, <3>4, <3>5
  <2>3. QED
    BY <1>3, <2>1, <2>2
<1>7. Phase(c)'
  BY <1>3, <1>5, <1>6, NullAssumption
     DEF Phase, WithSession, WithContext, Opened, Live, Dangling
<1>8. Own' /\ Explained'
  BY <1>0, <1>3 DEF Own, OwnMail, Explained
<1>9. QED
  BY <1>0, <1>3, <1>7, <1>8, StepAlone

LEMMA SetTextAlone ==
    ASSUME TypeOK, Alone, crashed = "no", NEW c \in Callers, SetText(c)
    PROVE  Alone'
<1>0. OneByOne /\ Phase(c) /\ Own /\ Explained /\ at[c] = "text"
  BY DEF Alone, SetText
<1>1. Opened(c) /\ Live(session_) /\ ~Dangling(session_)
  BY <1>0, HasOpened DEF WithSession
<1>2. Carries(c, {Null}, {{}}) /\ session[session_].context = authctx_
  BY <1>0 DEF Phase
<1>3. CASE Crash("text")
  <2>1. Explained'
    BY <1>0, <1>3 DEF Crash, Explained
  <2>2. QED
    BY <1>3, <2>1, CrashAlone
<1>4. CASE Crash("session") /\ Lost
  BY <1>1, <1>2, <1>4, HasMessage DEF Carries, Lost
<1>5. ASSUME NEW body \in {c, "overwritten"},
             ChangeMessage([n \in Message |-> [n EXCEPT !.text = body]]), Go(c, "recipient"),
             UNCHANGED <<contexts, session_, message_, authctx_, user_, bare, delivered, crashed>>
      PROVE  Alone'
  <2> DEFINE m == [by |-> c, text |-> Null, to |-> {}]
             change == [n \in Message |-> [n EXCEPT !.text = body]]
  <2>1. m \in Message /\ m.by = c /\ change[m] = [by |-> c, text |-> body, to |-> {}]
    BY DEF Message
  <2>2. ChangeMessage(change)
    BY <1>5
  <2> HIDE DEF m, change
  <2>3. /\ Opened(c)' /\ Carries(c, {c, "overwritten"}, {{}})'
        /\ session'[session_].context = session[session_].context
    <3>1. CASE message_ = Null /\ session[session_].messages = {}
      <4>1. session' = session
        BY <2>2, <3>1 DEF ChangeMessage
      <4>2. QED
        BY <1>1, <1>5, <3>1, <4>1, StillOpened DEF Carries
    <3>2. CASE message_ = [s |-> session_, by |-> c] /\ session[session_].messages = {m}
      <4>1. /\ Opened(c)' /\ session'[session_].messages = {change[m]}
            /\ session'[session_].context = session[session_].context
        BY <1>1, <1>5, <2>1, <2>2, <3>2, ChangeAlone
      <4>2. Carries(c, {c, "overwritten"}, {{}})'
        BY <1>5, <2>1, <3>2, <4>1 DEF Carries
      <4>3. QED
        BY <4>1, <4>2
    <3>3. QED
      BY <1>2, <3>1, <3>2 DEF Carries, m
  <2>4. at'[c] = "recipient"
    BY <1>5 DEF Go, TypeOK
  <2>5. Phase(c)'
    BY <1>2, <1>5, <2>3, <2>4, NullAssumption
       DEF Phase, WithSession, WithContext, Opened, Live, Dangling
  <2>6. Own' /\ Explained'
    BY <1>0, <1>5 DEF Own, OwnMail, Explained
  <2>7. QED
    BY <1>0, <1>5, <2>5, <2>6, StepAlone
<1>6. QED
  BY <1>3, <1>4, <1>5 DEF SetText

LEMMA AddRecipientAlone ==
    ASSUME TypeOK, Alone, crashed = "no", NEW c \in Callers, AddRecipient(c)
    PROVE  Alone'
<1>0. OneByOne /\ Phase(c) /\ Own /\ Explained /\ at[c] = "recipient"
  BY DEF Alone, AddRecipient
<1>1. Opened(c) /\ Live(session_) /\ ~Dangling(session_)
  BY <1>0, HasOpened DEF WithSession
<1>2. Carries(c, {c, "overwritten"}, {{}}) /\ session[session_].context = authctx_
  BY <1>0 DEF Phase
<1> DEFINE change == [n \in Message |-> [n EXCEPT !.to = @ \cup {c}]]
<1>3. ~Lost
  BY <1>1, <1>2, HasMessage DEF Carries, Lost
<1>4. /\ ChangeMessage(change) \/ session' = session
      /\ Go(c, "start")
      /\ UNCHANGED <<contexts, session_, message_, authctx_, user_, bare, delivered, crashed>>
  BY <1>3 DEF AddRecipient
<1>5. \A body \in {c, "overwritten"} :
         LET m == [by |-> c, text |-> body, to |-> {}] IN
         m \in Message /\ m.by = c /\ change[m] = [by |-> c, text |-> body, to |-> {c}]
  BY DEF Message
<1> HIDE DEF change
<1>6. /\ Opened(c)' /\ Carries(c, {c, "overwritten"}, {{}, {c}})'
      /\ session'[session_].context = session[session_].context
  <2>1. CASE session' = session
    BY <1>1, <1>2, <1>4, <2>1, StillOpened DEF Carries
  <2>2. CASE message_ = Null /\ session[session_].messages = {} /\ ChangeMessage(change)
    <3>1. session' = session
      BY <2>2 DEF ChangeMessage
    <3>2. QED
      BY <2>1, <3>1
  <2>3. ASSUME NEW body \in {c, "overwritten"}, message_ = [s |-> session_, by |-> c],
               session[session_].messages = {[by |-> c, text |-> body, to |-> {}]},
               ChangeMessage(change)
        PROVE  /\ Opened(c)' /\ Carries(c, {c, "overwritten"}, {{}, {c}})'
               /\ session'[session_].context = session[session_].context
    <3> DEFINE m == [by |-> c, text |-> body, to |-> {}]
    <3>1. /\ m \in Message /\ m.by = c /\ change[m] = [by |-> c, text |-> body, to |-> {c}]
          /\ session[session_].messages = {m}
      BY <1>5, <2>3
    <3> HIDE DEF m
    <3>2. /\ Opened(c)' /\ session'[session_].messages = {change[m]}
          /\ session'[session_].context = session[session_].context
      BY <1>1, <1>4, <2>3, <3>1, ChangeAlone
    <3>3. Carries(c, {c, "overwritten"}, {{}, {c}})'
      BY <1>4, <2>3, <3>1, <3>2 DEF Carries
    <3>4. QED
      BY <3>2, <3>3
  <2>4. QED
    BY <1>2, <1>4, <2>1, <2>2, <2>3 DEF Carries
<1>7. at'[c] = "start"
  BY <1>4 DEF Go, TypeOK
<1>8. Phase(c)'
  BY <1>2, <1>4, <1>6, <1>7, NullAssumption
     DEF Phase, WithSession, WithContext, Opened, Live, Dangling
<1>9. Own' /\ Explained'
  BY <1>0, <1>4 DEF Own, OwnMail, Explained
<1>10. QED
  BY <1>0, <1>4, <1>8, <1>9, StepAlone

LEMMA StartAlone ==
    ASSUME TypeOK, Alone, crashed = "no", NEW c \in Callers, Start(c)
    PROVE  Alone'
<1>0. OneByOne /\ Phase(c) /\ Own /\ Explained /\ at[c] = "start"
  BY DEF Alone, Start
<1>1. Opened(c) /\ Live(session_) /\ ~Dangling(session_)
  BY <1>0, HasOpened DEF WithSession
<1>2. Carries(c, {c, "overwritten"}, {{}, {c}}) /\ session[session_].context = authctx_
  BY <1>0 DEF Phase
<1>3. /\ talking' = [talking EXCEPT ![c] = session_] /\ Go(c, "talking")
      /\ UNCHANGED <<session, contexts, session_, message_, authctx_, user_, bare,
                     delivered, crashed>>
  BY <1>1 DEF Start
<1>4. at'[c] = "talking" /\ talking'[c] = session_
  BY <1>3 DEF Go, TypeOK
<1>5. Phase(c)'
  BY <1>1, <1>2, <1>3, <1>4 DEF Phase, Carries, WithSession, WithContext, Opened, Live, Dangling
<1>6. Own' /\ Explained'
  BY <1>0, <1>3 DEF Own, Explained
<1>7. QED
  BY <1>0, <1>3, <1>5, <1>6, StepAlone

LEMMA TalkAlone ==
    ASSUME TypeOK, Alone, crashed = "no", NEW c \in Callers, Talk(c)
    PROVE  Alone'
<1>0. OneByOne /\ Phase(c) /\ Own /\ Explained /\ at[c] = "talking"
  BY DEF Alone, Talk
<1>1. Opened(c) /\ Live(session_) /\ ~Dangling(session_)
  BY <1>0, HasOpened DEF WithSession
<1>2. /\ Carries(c, {c, "overwritten"}, {{}, {c}}) /\ session[session_].context = authctx_
      /\ talking[c] = session_
  BY <1>0 DEF Phase
<1>3. CASE Crash("context") /\ authctx_ \notin contexts \cup {Null}
  <2>1. bare
    BY <1>1, <1>3 DEF Opened
  <2>2. Explained'
    BY <1>3, <2>1 DEF Crash, Explained
  <2>3. QED
    BY <1>3, <2>2, CrashAlone
<1>4. ASSUME NEW login \in Logins(session_), delivered' = Sent(session_, login), Go(c, "status"),
             UNCHANGED <<session, contexts, session_, message_, authctx_, user_, bare, crashed>>
      PROVE  Alone'
  <2>1. at'[c] = "status"
    BY <1>4 DEF Go, TypeOK
  <2>2. Phase(c)'
    BY <1>1, <1>2, <1>4, <2>1
       DEF Phase, Carries, WithSession, WithContext, Opened, Live, Dangling
  <2>3. ASSUME NEW d \in Sent(session_, login)
        PROVE  OwnMail(d)
    <3>1. PICK p \in {q \in session[session_].messages \X Callers : q[2] \in q[1].to} :
             d = [text |-> p[1].text, to |-> p[2], login |-> login]
      BY <2>3 DEF Sent
    <3>2. PICK body \in {c, "overwritten"}, to \in {{}, {c}} :
             p[1] = [by |-> c, text |-> body, to |-> to] /\ p[2] \in to
      BY <1>2, <3>1 DEF Carries
    <3>3. d.text \in {c, "overwritten"} /\ d.to = c /\ d.login = login
      BY <3>1, <3>2
    <3>4. login \in {Null, "undefined", c}
      BY <1>1, <1>4 DEF Opened, Logins
    <3>5. QED
      BY <3>3, <3>4 DEF OwnMail
  <2>4. Own' /\ Explained'
    BY <1>0, <1>4, <2>3 DEF Own, OwnMail, Explained
  <2>5. QED
    BY <1>0, <1>4, <2>2, <2>4, StepAlone
<1>5. CASE /\ Go(c, "destroy session")
           /\ UNCHANGED <<session, contexts, session_, message_, authctx_, user_, bare,
                          delivered, crashed>>
  <2>1. at'[c] = "destroy session"
    BY <1>5 DEF Go, TypeOK
  <2>2. Phase(c)'
    BY <1>1, <1>5, <2>1 DEF Phase, WithSession, WithContext, Opened, Live, Dangling
  <2>3. Own' /\ Explained'
    BY <1>0, <1>5 DEF Own, Explained
  <2>4. QED
    BY <1>0, <1>5, <2>2, <2>3, StepAlone
<1>6. QED
  BY <1>1, <1>2, <1>3, <1>4, <1>5 DEF Talk

LEMMA StatusAlone ==
    ASSUME TypeOK, Alone, crashed = "no", NEW c \in Callers, Status(c)
    PROVE  Alone'
<1>0. OneByOne /\ Phase(c) /\ Own /\ Explained /\ at[c] = "status"
  BY DEF Alone, Status
<1>1. Opened(c) /\ Live(session_) /\ ~Dangling(session_)
  BY <1>0, HasOpened DEF WithSession
<1>2. ~Lost /\ message_ \in {Null, [s |-> session_, by |-> c]}
  BY <1>0, <1>1, HasMessage DEF Phase, Lost
<1>3. CASE message_ = Null /\ Crash("message")
  <2>1. Explained'
    BY <1>0, <1>3 DEF Crash, Explained
  <2>2. QED
    BY <1>3, <2>1, CrashAlone
<1>4. CASE /\ Go(c, "destroy session")
           /\ UNCHANGED <<session, contexts, session_, message_, authctx_, user_, bare,
                          delivered, crashed>>
  <2>1. at'[c] = "destroy session"
    BY <1>4 DEF Go, TypeOK
  <2>2. Phase(c)'
    BY <1>1, <1>4, <2>1 DEF Phase, WithSession, WithContext, Opened, Live, Dangling
  <2>3. Own' /\ Explained'
    BY <1>0, <1>4 DEF Own, OwnMail, Explained
  <2>4. QED
    BY <1>0, <1>4, <2>2, <2>3, StepAlone
<1>5. QED
  BY <1>2, <1>3, <1>4 DEF Status

LEMMA DestroySessionAlone ==
    ASSUME TypeOK, Alone, crashed = "no", NEW c \in Callers, DestroySession(c)
    PROVE  Alone'
<1>0. /\ OneByOne /\ Phase(c) /\ Own /\ Explained /\ at[c] = "destroy session"
      /\ ~Dangling(session_) /\ \A s \in Addresses : session[s].live => s = session_
      /\ contexts \subseteq {authctx_} /\ (bare \/ authctx_ \in contexts \cup {Null})
      /\ user_ \in {Null, c}
  BY DEF Alone, DestroySession, Phase, WithContext
<1>1. /\ session' = [s \in Addresses |-> IF s = session_ THEN Gone ELSE session[s]]
      /\ delivered' = {} /\ Go(c, "destroy context")
      /\ UNCHANGED <<contexts, authctx_, user_, bare, crashed>>
  BY <1>0 DEF DestroySession
<1>2. at'[c] = "destroy context"
  BY <1>1 DEF Go, TypeOK
<1>3. \A s \in Addresses : ~session'[s].live
  BY <1>0, <1>1, GoneType
<1>4. Phase(c)'
  BY <1>0, <1>1, <1>2, <1>3 DEF Phase, WithSession, WithContext
<1>5. Own' /\ Explained'
  BY <1>0, <1>1 DEF Own, Explained
<1>6. QED
  BY <1>0, <1>1, <1>4, <1>5, StepAlone

LEMMA DestroyContextAlone ==
    ASSUME TypeOK, Alone, crashed = "no", NEW c \in Callers, DestroyContext(c)
    PROVE  Alone'
<1>0. /\ OneByOne /\ Phase(c) /\ Own /\ Explained /\ at[c] = "destroy context"
      /\ \A s \in Addresses : ~session[s].live
      /\ contexts \subseteq {authctx_} /\ (bare \/ authctx_ \in contexts \cup {Null})
  BY DEF Alone, DestroyContext, Phase, WithContext
<1>1. CASE Crash("context") /\ authctx_ \notin contexts \cup {Null}
  <2>1. Explained'
    BY <1>0, <1>1 DEF Crash, Explained
  <2>2. QED
    BY <1>1, <2>1, CrashAlone
<1>2. CASE /\ contexts' = contexts \ {authctx_} /\ Go(c, "idle")
           /\ UNCHANGED <<session, bare, delivered, crashed>>
  <2>1. Clean' /\ at'[c] = "idle"
    BY <1>0, <1>2 DEF Clean, Go, TypeOK
  <2>2. Phase(c)'
    BY <2>1 DEF Phase, WithSession, WithContext
  <2>3. Own' /\ Explained'
    BY <1>0, <1>2 DEF Own, Explained
  <2>4. QED
    BY <1>0, <1>2, <2>1, <2>2, <2>3, StepAlone
<1>3. QED
  BY <1>1, <1>2 DEF DestroyContext

LEMMA InitAlone == Init => Alone
  BY DEF Init, Alone, OneByOne, Clean, Gone, Phase, WithSession, WithContext, Own, Explained

\* overlapped never turns FALSE again.
LEMMA NextAlone ==
    TypeOK /\ (~overlapped => Alone) /\ [Next]_vars => (~overlapped' => Alone')
<1> SUFFICES ASSUME TypeOK, ~overlapped => Alone, [Next]_vars, ~overlapped'
             PROVE  Alone'
  OBVIOUS
<1>1. CASE UNCHANGED vars
  BY <1>1, ZenonT(40) DEF vars, Alone, OneByOne, Clean, Carries, Phase, OwnMail, Own, Explained, Live, Dangling
<1>2. CASE Next
  <2>1. PICK c \in Callers : crashed = "no" /\ (Open(c) \/ Send(c) \/ Close(c))
    BY <1>2 DEF Next
  <2>2. CASE Open(c)
    <3>1. ~overlapped
      BY <2>2 DEF Open, Begin, KeepUser, CreateSession, CreateContext, UseContext, Crash
    <3>2. QED
      BY <2>1, <2>2, <3>1, OpenAlone
  <2>3. CASE Send(c)
    <3>1. ~overlapped
      BY <2>3 DEF Send, AddMessage, SetText, AddRecipient, Start, Talk, Status, Crash
    <3>2. QED
      BY <2>1, <2>3, <3>1, AddMessageAlone, SetTextAlone, AddRecipientAlone, StartAlone,
         TalkAlone, StatusAlone DEF Send
  <2>4. CASE Close(c)
    <3>1. ~overlapped
      BY <2>4 DEF Close, DestroySession, DestroyContext, Crash
    <3>2. QED
      BY <2>1, <2>4, <3>1, DestroySessionAlone, DestroyContextAlone DEF Close
  <2>5. QED
    BY <2>1, <2>2, <2>3, <2>4
<1>3. QED
  BY <1>1, <1>2

LEMMA AloneAlways == Spec => [](~overlapped => Alone)
<1> DEFINE I == TypeOK /\ (~overlapped => Alone)
<1>1. Init => I
  BY InitType, InitAlone
<1>2. I /\ [Next]_vars => I'
  BY NextType, NextAlone
<1>3. I => (~overlapped => Alone)
  OBVIOUS
<1> HIDE DEF I
<1>4. QED
  BY <1>1, <1>2, <1>3, PTL DEF Spec

\* Whatever open() or the conversation refuse, mails that are sent one after the other
\* use nothing after its end, except the context of an earlier mail in a call that made
\* none of its own.
THEOREM UsesExplained == Spec => []UseExplained
<1>1. (~overlapped => Alone) => UseExplained
  BY DEF Alone, Explained, UseExplained
<1>2. QED
  BY <1>1, AloneAlways, PTL

\* Each of them goes out with its own text, to its own recipient and as its own user.
THEOREM MailsDeliverOwn == Spec => []DeliversOwn
<1>1. (~overlapped => Alone) => DeliversOwn
  BY DEF Alone, Own, OwnMail, DeliversOwn
<1>2. QED
  BY <1>1, AloneAlways, PTL

\* close() destroys all that open() made, on every path through send_email().
THEOREM MailsLeaveNothing == Spec => []NothingLeft
<1>1. (~overlapped => Alone) => NothingLeft
  BY DEF Alone, OneByOne, Clean, NothingLeft
<1>2. QED
  BY <1>1, AloneAlways, PTL

----------------------------------------------------------------------------
(***************************************************************************)
(* Conversions.                                                            *)
(***************************************************************************)

(* Searching.                                                              *)

\* Where a search ends, when its first match is known.
LEMMA LowestIs ==
    ASSUME NEW s, NEW S, NEW m, m \in S, \A j \in S : m <= j, S \subseteq Nat
    PROVE  Lowest(s, S) = m
<1>1. \A i \in S : (\A j \in S : i <= j) => i = m
  OBVIOUS
<1>2. S # {}
  OBVIOUS
<1> QED
  BY <1>1, <1>2 DEF Lowest

LEMMA LowestOfNone == ASSUME NEW s PROVE Lowest(s, {}) = Len(s) + 1
  BY DEF Lowest, Npos

Less == {ss \in Nat \X Nat : ss[1] < ss[2]}

LEMMA HasLeast ==
    ASSUME NEW S, S \subseteq Nat, S # {}
    PROVE  \E m \in S : \A j \in S : m <= j
<1>1. IsWellFoundedOn(Less, Nat)
  BY NatLessThanWellFounded, Zenon DEF OpToRel, Less
<1>2. PICK m \in S : \A n \in S : <<n, m>> \notin Less
  BY <1>1, WFMin, Zenon
<1>3. \A n \in S : ~(n < m)
  BY <1>2 DEF Less
<1> QED
  BY <1>3

\* The bytes before the first zero are those before z.
LEMMA ZeroAt ==
    ASSUME NEW s \in Seq(0..255)
    PROVE  \E z \in 1..Len(s) + 1 :
              /\ FindFirstOf(s, {0}, 1) = z
              /\ \A i \in 1..z - 1 : s[i] # 0
<1> DEFINE S == {i \in 1..Len(s) : s[i] \in {0}}
<1>1. FindFirstOf(s, {0}, 1) = Lowest(s, S)
  BY DEF FindFirstOf
<1>2. CASE S = {}
  <2>1. Lowest(s, S) = Len(s) + 1
    BY <1>2, LowestOfNone
  <2>2. \A i \in 1..Len(s) : s[i] # 0
    BY <1>2
  <2> QED
    BY <1>1, <2>1, <2>2
<1>3. CASE S # {}
  <2>1. S \subseteq Nat
    OBVIOUS
  <2>2. PICK z \in S : \A j \in S : z <= j
    BY <1>3, <2>1, HasLeast
  <2>3. Lowest(s, S) = z
    BY <2>1, <2>2, LowestIs
  <2>4. \A i \in 1..z - 1 : s[i] # 0
    BY <2>2
  <2> QED
    BY <1>1, <2>2, <2>3, <2>4
<1> QED
  BY <1>2, <1>3

----------------------------------------------------------------------------
(* Hexadecimal.                                                            *)

LEMMA HexDigits ==
    \A x \in 0..15 : HexDigit(x) \in 48..102 /\ HexValue(HexDigit(x)) = x
  BY DEF HexDigit, HexValue

LEMMA Nibbles ==
    \A c \in 0..255 : c \div 16 \in 0..15 /\ c % 16 \in 0..15 /\ (c \div 16) * 16 + (c % 16) = c
  OBVIOUS

LEMMA Halves ==
    \A i \in Nat \ {0} : /\ (2 * i - 1 + 1) \div 2 = i /\ (2 * i - 1) % 2 = 1
                         /\ (2 * i + 1) \div 2 = i /\ (2 * i) % 2 = 0
  OBVIOUS

LEMMA HalvesIn ==
    \A n \in Nat : \A i \in 1..2 * n : (i + 1) \div 2 \in 1..n
<1> SUFFICES ASSUME NEW n \in Nat, NEW i \in 1..2 * n PROVE (i + 1) \div 2 \in 1..n
  OBVIOUS
<1>1. PICK j \in Nat : j = (i + 1) \div 2
  OBVIOUS
<1>2. 2 * j <= i + 1 /\ i + 1 < 2 * j + 2
  BY <1>1
<1>3. j \in 1..n
  BY <1>2
<1> QED
  BY <1>1, <1>3

LEMMA ZeroesAre ==
    ASSUME NEW n \in Nat
    PROVE  Zeroes(n) \in Seq(0..255) /\ Len(Zeroes(n)) = n /\ \A i \in 1..n : Zeroes(n)[i] = 0
  BY DEF Zeroes

LEMMA HexInverts ==
    ASSUME NEW s \in Seq(0..255)
    PROVE  Hex2str(Str2hex(s)) = UpToZero(s) \o Zeroes(Len(s) - Len(UpToZero(s)))
<1>1. PICK z \in 1..Len(s) + 1 :
         FindFirstOf(s, {0}, 1) = z /\ \A i \in 1..z - 1 : s[i] # 0
  BY ZeroAt
<1> DEFINE n == z - 1
<1>2. n \in 0..Len(s) /\ Len(s) \in Nat
  OBVIOUS
<1>0. \A i \in 1..Len(s) : s[i] \in 0..255
  BY ElementOfSeq
<1>3. UpToZero(s) = SubSeq(s, 1, n)
  BY <1>1 DEF UpToZero, Between
<1>4. Len(UpToZero(s)) = n
  BY <1>2, <1>3
<1> DEFINE digits == [i \in 1..2 * n |-> LET c == s[(i + 1) \div 2] IN
                                 HexDigit(IF i % 2 = 1 THEN c \div 16 ELSE c % 16)]
           hex == digits \o Zeroes(2 * (Len(s) - n))
<1>5. Str2hex(s) = hex
  BY <1>4 DEF Str2hex
<1>6. \A i \in 1..2 * n : digits[i] \in 48..102
  <2> SUFFICES ASSUME NEW i \in 1..2 * n PROVE digits[i] \in 48..102
    OBVIOUS
  <2>1. (i + 1) \div 2 \in 1..n
    BY <1>2, HalvesIn
  <2>2. \A k \in 1..n : s[k] \in 0..255
    <3> HIDE DEF n
    <3> QED
      BY <1>0, <1>2
  <2> DEFINE c == s[(i + 1) \div 2]
  <2>3. c \in 0..255
    BY <2>1, <2>2
  <2>4. digits[i] = HexDigit(IF i % 2 = 1 THEN c \div 16 ELSE c % 16)
    OBVIOUS
  <2> HIDE DEF c, digits
  <2>5. (IF i % 2 = 1 THEN c \div 16 ELSE c % 16) \in 0..15
    BY <2>3, Nibbles
  <2> QED
    BY <2>4, <2>5, HexDigits
<1>7. digits \in Seq(0..255) /\ Len(digits) = 2 * n
  <2>1. 2 * n \in Nat
    BY <1>2
  <2>2. \A x \in 48..102 : x \in 0..255
    OBVIOUS
  <2>3. DOMAIN digits = 1..2 * n
    OBVIOUS
  <2>4. digits = [i \in 1..2 * n |-> digits[i]]
    OBVIOUS
  <2> HIDE DEF digits, n
  <2>5. digits \in [1..2 * n -> 0..255]
    BY <1>6, <2>2, <2>3, <2>4
  <2>6. \A k \in Nat : digits \in [1..k -> 0..255] => digits \in Seq(0..255) /\ Len(digits) = k
    OBVIOUS
  <2> QED
    BY <2>1, <2>5, <2>6
<1> HIDE DEF digits, n
<1>8. \A i \in 1..n : /\ digits[2 * i - 1] = HexDigit(s[i] \div 16)
                      /\ digits[2 * i] = HexDigit(s[i] % 16)
  <2> SUFFICES ASSUME NEW i \in 1..n
               PROVE  /\ digits[2 * i - 1] = HexDigit(s[i] \div 16)
                      /\ digits[2 * i] = HexDigit(s[i] % 16)
    OBVIOUS
  <2>1. 2 * i - 1 \in 1..2 * n /\ 2 * i \in 1..2 * n /\ i \in Nat \ {0}
    BY <1>2
  <2>2. /\ (2 * i - 1 + 1) \div 2 = i /\ (2 * i - 1) % 2 = 1
        /\ (2 * i + 1) \div 2 = i /\ (2 * i) % 2 = 0
    BY <2>1, Halves
  <2>3. /\ digits[2 * i - 1] = HexDigit(IF (2 * i - 1) % 2 = 1 THEN s[(2 * i - 1 + 1) \div 2] \div 16
                                        ELSE s[(2 * i - 1 + 1) \div 2] % 16)
        /\ digits[2 * i] = HexDigit(IF (2 * i) % 2 = 1 THEN s[(2 * i + 1) \div 2] \div 16
                                    ELSE s[(2 * i + 1) \div 2] % 16)
    BY <2>1, Zenon DEF digits
  <2> QED
    BY <2>2, <2>3
<1>9. 2 * (Len(s) - n) \in Nat /\ 2 * n \in Nat /\ n \in Nat
  BY <1>2
<1>10. /\ hex \in Seq(0..255) /\ Len(hex) = 2 * Len(s)
       /\ \A i \in 1..2 * n : hex[i] = digits[i]
       /\ \A i \in 2 * n + 1..2 * Len(s) : hex[i] = 0
  <2> DEFINE tail == Zeroes(2 * (Len(s) - n))
  <2>1. tail \in Seq(0..255) /\ Len(tail) = 2 * (Len(s) - n)
        /\ \A i \in 1..2 * (Len(s) - n) : tail[i] = 0
    BY <1>9, ZeroesAre
  <2> HIDE DEF tail
  <2>2. /\ digits \o tail \in Seq(0..255)
        /\ Len(digits \o tail) = 2 * n + 2 * (Len(s) - n)
        /\ \A i \in 1..2 * n + 2 * (Len(s) - n) :
              (digits \o tail)[i] = IF i <= 2 * n THEN digits[i] ELSE tail[i - 2 * n]
    <3>1. tail \in Seq(0..255) /\ digits \in Seq(0..255)
      BY <1>7, <2>1
    <3>2. Len(digits) = 2 * n /\ Len(tail) = 2 * (Len(s) - n)
      BY <1>7, <2>1
    <3>3. /\ digits \o tail \in Seq(0..255)
          /\ Len(digits \o tail) = Len(digits) + Len(tail)
          /\ \A i \in 1..Len(digits) + Len(tail) :
                (digits \o tail)[i] = IF i <= Len(digits) THEN digits[i] ELSE tail[i - Len(digits)]
      BY <3>1, ConcatProperties
    <3> HIDE DEF hex
    <3> QED
      BY <3>2, <3>3
  <2>3. 2 * n + 2 * (Len(s) - n) = 2 * Len(s)
    BY <1>2
  <2>4. \A i \in 2 * n + 1..2 * Len(s) : i - 2 * n \in 1..2 * (Len(s) - n) /\ ~(i <= 2 * n)
    BY <1>2
  <2>5. \A i \in 1..2 * n : i \in 1..2 * Len(s) /\ i <= 2 * n
    BY <1>2
  <2>6. \A i \in 2 * n + 1..2 * Len(s) : i \in 1..2 * Len(s)
    BY <1>2
  <2>7. hex = digits \o tail
    BY DEF tail
  <2> HIDE DEF hex
  <2> QED
    BY <2>1, <2>2, <2>3, <2>4, <2>5, <2>6, <2>7
<1> HIDE DEF hex
<1>11. (2 * Len(s)) \div 2 = Len(s) /\ (2 * Len(s)) % 2 = 0
  BY <1>2
<1> DEFINE firsts == Firsts(hex)
<1>12. /\ firsts \in Seq(0..255) /\ Len(firsts) = Len(s)
       /\ \A i \in 1..n : firsts[i] # 0
       /\ \A i \in n + 1..Len(s) : firsts[i] = 0
  <2>1. firsts = [i \in 1..Len(s) |-> hex[2 * i - 1]]
    BY <1>10, <1>11 DEF Firsts
  <2>2. \A i \in 1..Len(s) : hex[2 * i - 1] \in 0..255
    <3> SUFFICES ASSUME NEW i \in 1..Len(s) PROVE hex[2 * i - 1] \in 0..255
      OBVIOUS
    <3>1. 2 * i - 1 \in 1..Len(hex)
      BY <1>2, <1>10
    <3> QED
      BY <1>10, <3>1, ElementOfSeq
  <2>3. \A i \in 1..n : hex[2 * i - 1] # 0
    <3> SUFFICES ASSUME NEW i \in 1..n PROVE hex[2 * i - 1] # 0
      OBVIOUS
    <3>1. 2 * i - 1 \in 1..2 * n
      BY <1>2
    <3>2. hex[2 * i - 1] \in 48..102
      BY <1>6, <1>10, <3>1
    <3>3. \A x \in 48..102 : x # 0
      OBVIOUS
    <3> QED
      BY <3>2, <3>3
  <2>4. \A i \in n + 1..Len(s) : hex[2 * i - 1] = 0
    <3> SUFFICES ASSUME NEW i \in n + 1..Len(s) PROVE hex[2 * i - 1] = 0
      OBVIOUS
    <3>1. 2 * i - 1 \in 2 * n + 1..2 * Len(s)
      BY <1>2
    <3> QED
      BY <1>10, <3>1
  <2>5. \A i \in 1..n : i \in 1..Len(s)
    BY <1>2
  <2>6. \A i \in n + 1..Len(s) : i \in 1..Len(s)
    BY <1>2
  <2> HIDE DEF firsts
  <2> QED
    BY <1>2, <2>1, <2>2, <2>3, <2>4, <2>5, <2>6
<1> HIDE DEF firsts
<1>13. Len(UpToZero(firsts)) = n
  <2> DEFINE S == {i \in 1..Len(firsts) : firsts[i] \in {0}}
  <2>1. FindFirstOf(firsts, {0}, 1) = Lowest(firsts, S)
    BY DEF FindFirstOf
  <2>2. \A i \in S : i \in Nat /\ n + 1 <= i
    BY <1>2, <1>12
  <2>3. FindFirstOf(firsts, {0}, 1) = n + 1
    <3>1. CASE n = Len(s)
      <4>1. S = {}
        BY <1>2, <1>12, <2>2, <3>1
      <4> QED
        BY <1>12, <2>1, <3>1, <4>1, LowestOfNone
    <3>2. CASE n # Len(s)
      <4>1. n + 1 \in S
        BY <1>2, <1>12, <3>2
      <4> HIDE DEF S
      <4> QED
        BY <2>1, <2>2, <4>1, LowestIs
    <3> QED
      BY <3>1, <3>2
  <2>4. UpToZero(firsts) = SubSeq(firsts, 1, n)
    BY <1>9, <2>3 DEF UpToZero, Between
  <2> QED
    BY <1>2, <1>12, <2>4
<1> DEFINE back == [i \in 1..n |-> HexValue(hex[2 * i - 1]) * 16 + HexValue(hex[2 * i])]
<1>14. Hex2str(hex) = back \o Zeroes(Len(s) - n)
  BY <1>2, <1>10, <1>11, <1>13 DEF Hex2str, firsts
<1>15. back = SubSeq(s, 1, n)
  <2>1. \A i \in 1..n : back[i] = s[i]
    <3> SUFFICES ASSUME NEW i \in 1..n
                 PROVE  HexValue(hex[2 * i - 1]) * 16 + HexValue(hex[2 * i]) = s[i]
      OBVIOUS
    <3>1. 2 * i - 1 \in 1..2 * n /\ 2 * i \in 1..2 * n /\ i \in 1..Len(s)
      BY <1>2
    <3>4. s[i] \in 0..255
      BY <1>0, <3>1
    <3>2. hex[2 * i - 1] = HexDigit(s[i] \div 16) /\ hex[2 * i] = HexDigit(s[i] % 16)
      BY <1>8, <1>10, <3>1
    <3>3. HexValue(hex[2 * i - 1]) = s[i] \div 16 /\ HexValue(hex[2 * i]) = s[i] % 16
      BY <3>2, <3>4, Nibbles, HexDigits
    <3> QED
      BY <3>3, <3>4, Nibbles
  <2>2. SubSeq(s, 1, n) = [i \in 1..n |-> s[i]]
    BY <1>2
  <2> QED
    BY <2>1, <2>2
<1> QED
  BY <1>3, <1>4, <1>5, <1>14, <1>15
----------------------------------------------------------------------------
(* base64.                                                                 *)

\* The alphabet, by ranges.
CharAt(i) ==
    IF i <= 26 THEN 64 + i ELSE IF i <= 52 THEN 70 + i ELSE IF i <= 62 THEN i - 5
    ELSE IF i = 63 THEN 43 ELSE 47

\* u is s with m elements, followed by t with n.
Joins(u, s, m, t, n) ==
    /\ u \in Seq(Nat) /\ Len(u) = m + n
    /\ \A i \in 1..m : u[i] = s[i]
    /\ \A i \in 1..n : u[m + i] = t[i]

LEMMA Joining ==
    ASSUME NEW s \in Seq(Nat), NEW t \in Seq(Nat), NEW m \in Nat, NEW n \in Nat,
           Len(s) = m, Len(t) = n, NEW u, u = s \o t
    PROVE  Joins(u, s, m, t, n)
<1>1. /\ s \o t \in Seq(Nat)
      /\ Len(s \o t) = Len(s) + Len(t)
      /\ \A i \in 1..Len(s) + Len(t) :
            (s \o t)[i] = IF i <= Len(s) THEN s[i] ELSE t[i - Len(s)]
  BY ConcatProperties
<1>2. /\ u \in Seq(Nat) /\ Len(u) = m + n
      /\ \A i \in 1..m + n : u[i] = IF i <= m THEN s[i] ELSE t[i - m]
  BY <1>1
<1>3. \A i \in 1..m : i \in 1..m + n /\ i <= m
  OBVIOUS
<1>4. \A i \in 1..n : m + i \in 1..m + n /\ ~(m + i <= m) /\ (m + i) - m = i
  OBVIOUS
<1> QED
  BY <1>2, <1>3, <1>4 DEF Joins

LEMMA AlphabetIs ==
    \A i \in 1..64 : Base64Chars[i] = CharAt(i)
<1>1. Upper \in Seq(Nat) /\ Len(Upper) = 26 /\ \A i \in 1..26 : Upper[i] = 64 + i
  BY DEF Upper
<1>2. Lower \in Seq(Nat) /\ Len(Lower) = 26 /\ \A i \in 1..26 : Lower[i] = 96 + i
  BY DEF Lower
<1>3. Digits \in Seq(Nat) /\ Len(Digits) = 10 /\ \A i \in 1..10 : Digits[i] = 47 + i
  BY DEF Digits
<1>4. PICK last : last = <<43, 47>>
  OBVIOUS
<1>5. last \in Seq(Nat) /\ Len(last) = 2 /\ last[1] = 43 /\ last[2] = 47
  BY <1>4
<1>6. PICK letters : letters = Upper \o Lower
  OBVIOUS
<1>7. Joins(letters, Upper, 26, Lower, 26)
  BY <1>1, <1>2, <1>6, Joining
<1>8. letters \in Seq(Nat) /\ Len(letters) = 52
  BY <1>7 DEF Joins
<1>9. PICK most : most = letters \o Digits
  OBVIOUS
<1>10. Joins(most, letters, 52, Digits, 10)
  BY <1>3, <1>8, <1>9, Joining
<1>11. most \in Seq(Nat) /\ Len(most) = 62
  BY <1>10 DEF Joins
<1>12. PICK all : all = most \o last
  OBVIOUS
<1>13. Base64Chars = all
  BY <1>4, <1>6, <1>9, <1>12 DEF Base64Chars
<1>14. Joins(all, most, 62, last, 2)
  BY <1>5, <1>11, <1>12, Joining, ZenonT(40)
<1>15. \A i \in 1..52 : all[i] = letters[i]
  <2>1. \A i \in 1..52 : i \in 1..62
    OBVIOUS
  <2>2. \A i \in 1..52 : most[i] = letters[i]
    BY <1>10 DEF Joins
  <2>3. \A i \in 1..62 : all[i] = most[i]
    BY <1>14 DEF Joins
  <2> QED
    BY <2>1, <2>2, <2>3
<1>16. \A i \in 1..26 : all[i] = 64 + i
  <2>1. \A i \in 1..26 : i \in 1..52
    OBVIOUS
  <2>2. \A i \in 1..26 : letters[i] = 64 + i
    BY <1>1, <1>7 DEF Joins
  <2> QED
    BY <1>15, <2>1, <2>2
<1>17. \A i \in 1..26 : all[26 + i] = 96 + i
  <2>1. \A i \in 1..26 : 26 + i \in 1..52
    OBVIOUS
  <2>2. \A i \in 1..26 : letters[26 + i] = 96 + i
    BY <1>2, <1>7 DEF Joins
  <2> QED
    BY <1>15, <2>1, <2>2
<1>18. \A i \in 1..10 : all[52 + i] = 47 + i
  <2>1. \A i \in 1..10 : 52 + i \in 1..62
    OBVIOUS
  <2>2. \A i \in 1..10 : most[52 + i] = 47 + i
    BY <1>3, <1>10 DEF Joins
  <2>3. \A i \in 1..62 : all[i] = most[i]
    BY <1>14 DEF Joins
  <2> QED
    BY <2>1, <2>2, <2>3
<1>19. all[63] = 43 /\ all[64] = 47
  <2>1. all[62 + 1] = 43 /\ all[62 + 2] = 47
    BY <1>5, <1>14 DEF Joins
  <2> QED
    BY <2>1
<1> SUFFICES ASSUME NEW i \in 1..64 PROVE all[i] = CharAt(i)
  BY <1>13
<1>20. CASE i <= 26
  BY <1>16, <1>20 DEF CharAt
<1>21. CASE i > 26 /\ i <= 52
  <2>1. all[26 + (i - 26)] = 96 + (i - 26)
    BY <1>17, <1>21
  <2> QED
    BY <1>21, <2>1 DEF CharAt
<1>22. CASE i > 52 /\ i <= 62
  <2>1. all[52 + (i - 52)] = 47 + (i - 52)
    BY <1>18, <1>22
  <2> QED
    BY <1>22, <2>1 DEF CharAt
<1>23. CASE i > 62
  <2>1. i = 63 \/ i = 64
    BY <1>23
  <2> QED
    BY <1>19, <2>1 DEF CharAt
<1> QED
  BY <1>20, <1>21, <1>22, <1>23

LEMMA CharsDiffer ==
    \A i, j \in 1..64 : CharAt(i) # Pad /\ (CharAt(i) = CharAt(j) => i = j)
  BY DEF CharAt, Pad

\* The decoder finds what the encoder printed, and stops at the padding.
LEMMA IndexInverts ==
    \A q \in 0..63 : Index(Base64Chars[1 + q]) = q
<1> SUFFICES ASSUME NEW q \in 0..63 PROVE Index(Base64Chars[1 + q]) = q
  OBVIOUS
<1> DEFINE c == Base64Chars[1 + q]
<1>1. 1 + q \in 1..64
  OBVIOUS
<1>2. \A i \in 1..64 : Base64Chars[i] = c => i = 1 + q
  BY <1>1, AlphabetIs, CharsDiffer
<1>3. \E i \in 1..64 : Base64Chars[i] = c
  BY <1>1
<1> HIDE DEF c
<1>4. (CHOOSE i \in 1..64 : Base64Chars[i] = c) = 1 + q
  BY <1>2, <1>3
<1>5. Index(c) = q
  <2>1. Index(c) = (1 + q) - 1
    BY <1>3, <1>4, Zenon DEF Index
  <2> QED
    BY <2>1
<1> QED
  BY <1>5 DEF c

LEMMA PadIsNoIndex == Index(Pad) = 255
  BY AlphabetIs, CharsDiffer DEF Index

\* The four indices of three bytes, and the bytes that come back from them.
Index1(a) == a \div 4
Index2(a, b) == (a % 4) * 16 + b \div 16
Index3(b, c) == (b % 16) * 4 + c \div 64
Index4(c) == c % 64

LEMMA IndicesOf ==
    ASSUME NEW a, NEW b, NEW c
    PROVE  /\ Quadruple(a, b, c)[1] = Index1(a)
           /\ Quadruple(a, b, c)[2] = Index2(a, b)
           /\ Quadruple(a, b, c)[3] = Index3(b, c)
           /\ Quadruple(a, b, c)[4] = Index4(c)
  BY DEF Quadruple, Index1, Index2, Index3, Index4

LEMMA IndicesIn ==
    ASSUME NEW a \in 0..255, NEW b \in 0..255, NEW c \in 0..255, NEW j \in 1..4
    PROVE  Quadruple(a, b, c)[j] \in 0..63
<1>1. j = 1 \/ j = 2 \/ j = 3 \/ j = 4
  OBVIOUS
<1>2. /\ Index1(a) \in 0..63 /\ Index2(a, b) \in 0..63
      /\ Index3(b, c) \in 0..63 /\ Index4(c) \in 0..63
  BY DEF Index1, Index2, Index3, Index4
<1> QED
  BY <1>1, <1>2, IndicesOf

LEMMA FirstByte ==
    ASSUME NEW a \in 0..255, NEW b \in 0..255, NEW z, NEW w
    PROVE  Triple(Index1(a), Index2(a, b), z, w)[1] = a
<1>1. ((a \div 4) * 4 + ((((a % 4) * 16 + b \div 16) \div 16) % 4)) % 256 = a
  OBVIOUS
<1> QED
  BY <1>1 DEF Triple, Index1, Index2

SecondIs(a, b, c) == \A z, w : Triple(z, Index2(a, b), Index3(b, c), w)[2] = b

LEMMA SecondByte ==
    ASSUME NEW a \in 0..255, NEW b \in 0..255, NEW c \in 0..255
    PROVE  SecondIs(a, b, c)
<1>1. ((((a % 4) * 16 + b \div 16) % 16) * 16 + ((((b % 16) * 4 + c \div 64) \div 4) % 16)) % 256 = b
  OBVIOUS
<1> QED
  BY <1>1 DEF SecondIs, Triple, Index2, Index3

LEMMA ThirdByte ==
    ASSUME NEW b \in 0..255, NEW c \in 0..255, NEW z, NEW w
    PROVE  Triple(z, w, Index3(b, c), Index4(c))[3] = c
<1>1. ((((b % 16) * 4 + c \div 64) % 4) * 64 + (c % 64)) % 256 = c
  OBVIOUS
<1> QED
  BY <1>1 DEF Triple, Index3, Index4

\* Three bytes to a group, four characters to a group, and what the last one lacks.
Sized(len, n, p) ==
    n = (len + 2) \div 3 /\ p = IF len % 3 = 0 THEN 0 ELSE 3 - (len % 3)

LEMMA Lengths ==
    ASSUME NEW len \in Nat, NEW n, NEW p, Sized(len, n, p)
    PROVE  /\ n \in Nat /\ p \in 0..2 /\ 4 * n - p \in 0..4 * n
           /\ p < 4 * n \/ n = 0
           /\ ((4 * n - p) \div 4) * 3
                + (IF (4 * n - p) % 4 = 0 THEN 0 ELSE ((4 * n - p) % 4) - 1) = len
  BY DEF Sized

\* Byte i is number r of group k, whose characters r and r + 1 are no padding.
LEMMA GroupOf ==
    ASSUME NEW len \in Nat, NEW n, NEW p, Sized(len, n, p), NEW i \in 1..len
    PROVE  \E k \in Nat : \E r \in 1..3 :
              /\ (i - 1) \div 3 = k /\ ((i - 1) % 3) + 1 = r /\ i = 3 * k + r
              /\ k < n /\ 4 * k + r + 1 <= 4 * n - p
  BY DEF Sized

LEMMA CharacterOf ==
    ASSUME NEW k \in Nat, NEW j \in 1..4
    PROVE  ((4 * k + j) - 1) \div 4 = k /\ (((4 * k + j) - 1) % 4) + 1 = j
  OBVIOUS

LEMMA ByteOfIs ==
    ASSUME NEW s \in Seq(0..255), NEW i \in Nat \ {0}
    PROVE  ByteOf(s, i) \in 0..255 /\ (i <= Len(s) => ByteOf(s, i) = s[i])
<1>1. i <= Len(s) => s[i] \in 0..255
  BY ElementOfSeq
<1> QED
  BY <1>1 DEF ByteOf

\* The text that is printed for s: k is the number of a group and j that of one of
\* its characters.
LEMMA Encoded ==
    ASSUME NEW s \in Seq(0..255), NEW n, NEW p, Sized(Len(s), n, p),
           NEW e, e = Base64Encode(s)
    PROVE  /\ Len(e) = 4 * n
           /\ \A k \in Nat, j \in 1..4 :
                 4 * k + j <= 4 * n - p =>
                    e[4 * k + j] = Base64Chars[1 + Quadruple(ByteOf(s, 3 * k + 1),
                                       ByteOf(s, 3 * k + 2), ByteOf(s, 3 * k + 3))[j]]
           /\ \A i \in 1..4 * n : i > 4 * n - p => e[i] = Pad
<1> DEFINE all(i) == LET g == (i - 1) \div 4 IN
                     Base64Chars[1 + Quadruple(ByteOf(s, 3 * g + 1), ByteOf(s, 3 * g + 2),
                                               ByteOf(s, 3 * g + 3))[((i - 1) % 4) + 1]]
<1>1. Len(s) \in Nat /\ n \in Nat /\ p \in 0..2 /\ 4 * n - p \in Int /\ 4 * n \in Nat
  <2>1. Len(s) \in Nat
    OBVIOUS
  <2> QED
    BY <2>1, Lengths
<1>2. e = [i \in 1..4 * n |-> IF i > 4 * n - p THEN Pad ELSE all(i)]
  <2>1. e = [i \in 1..4 * n |-> IF i > 4 * n - p THEN Pad
                                ELSE [x \in 1..4 * n |-> all(x)][i]]
    <3>1. n = (Len(s) + 2) \div 3 /\ Padding(s) = p
      BY DEF Sized, Padding
    <3> QED
      BY <3>1, Zenon DEF Base64Encode
  <2> HIDE DEF all
  <2> QED
    BY <2>1
<1>3. Len(e) = 4 * n
  <2> HIDE DEF all
  <2> QED
    BY <1>1, <1>2
<1>4. ASSUME NEW k \in Nat, NEW j \in 1..4, 4 * k + j <= 4 * n - p
      PROVE  e[4 * k + j] = Base64Chars[1 + Quadruple(ByteOf(s, 3 * k + 1),
                                       ByteOf(s, 3 * k + 2), ByteOf(s, 3 * k + 3))[j]]
  <2>1. 4 * k + j \in 1..4 * n /\ ~(4 * k + j > 4 * n - p)
    BY <1>1, <1>4
  <2>2. e[4 * k + j] = all(4 * k + j)
    <3> HIDE DEF all
    <3> QED
      BY <1>2, <2>1
  <2>3. ((4 * k + j) - 1) \div 4 = k /\ (((4 * k + j) - 1) % 4) + 1 = j
    BY CharacterOf
  <2>4. all(4 * k + j) = Base64Chars[1 + Quadruple(ByteOf(s, 3 * k + 1),
                                       ByteOf(s, 3 * k + 2), ByteOf(s, 3 * k + 3))[j]]
    BY <2>3, Zenon
  <2> QED
    BY <2>2, <2>4, Zenon
<1>5. \A i \in 1..4 * n : i > 4 * n - p => e[i] = Pad
  <2> HIDE DEF all
  <2> QED
    BY <1>2
<1> QED
  BY <1>3, <1>4, <1>5

\* Up to position m, e holds the indices of the groups of s.
Holds(e, s, m) ==
    \A k \in Nat, j \in 1..4 :
        4 * k + j <= m =>
            Index(e[4 * k + j]) = Quadruple(ByteOf(s, 3 * k + 1), ByteOf(s, 3 * k + 2),
                                            ByteOf(s, 3 * k + 3))[j]

\* The decoder sees the indices of the encoder, and ends where the padding begins.
LEMMA SeenAgain ==
    ASSUME NEW s \in Seq(0..255), NEW n, NEW p, Sized(Len(s), n, p),
           NEW e, e = Base64Encode(s)
    PROVE  /\ Lowest(e, {i \in 1..Len(e) : Index(e[i]) = 255}) - 1 = 4 * n - p
           /\ Holds(e, s, 4 * n - p)
<1>1. /\ n \in Nat /\ p \in 0..2 /\ 4 * n - p \in 0..4 * n
      /\ p < 4 * n \/ n = 0
  <2>1. Len(s) \in Nat
    OBVIOUS
  <2> QED
    BY <2>1, Lengths
<1> DEFINE q(k, j) == Quadruple(ByteOf(s, 3 * k + 1), ByteOf(s, 3 * k + 2), ByteOf(s, 3 * k + 3))[j]
<1>2. ASSUME NEW k \in Nat, NEW j \in 1..4 PROVE q(k, j) \in 0..63
  <2>1. 3 * k + 1 \in Nat \ {0} /\ 3 * k + 2 \in Nat \ {0} /\ 3 * k + 3 \in Nat \ {0}
    OBVIOUS
  <2> QED
    BY <2>1, ByteOfIs, IndicesIn
<1>3. /\ Len(e) = 4 * n
      /\ \A k \in Nat, j \in 1..4 :
            4 * k + j <= 4 * n - p => e[4 * k + j] = Base64Chars[1 + q(k, j)]
      /\ \A i \in 1..4 * n : i > 4 * n - p => e[i] = Pad
  BY Encoded
<1> HIDE DEF q
<1>4. \A k \in Nat, j \in 1..4 : 4 * k + j <= 4 * n - p => Index(e[4 * k + j]) = q(k, j)
  BY <1>2, <1>3, IndexInverts
<1> DEFINE S == {i \in 1..Len(e) : Index(e[i]) = 255}
<1>5. \A i \in S : i \in Nat /\ i > 4 * n - p
  <2> SUFFICES ASSUME NEW i \in S, i <= 4 * n - p PROVE FALSE
    BY <1>1, <1>3
  <2>1. PICK k \in Nat : k = (i - 1) \div 4
    BY <1>1, <1>3
  <2>2. PICK j \in 1..4 : i = 4 * k + j
    <3>1. i \in Nat \ {0}
      BY <1>1, <1>3
    <3>2. i - 4 * k \in 1..4
      BY <2>1, <3>1
    <3>3. i = 4 * k + (i - 4 * k)
      BY <3>1
    <3> QED
      BY <3>2, <3>3
  <2>3. Index(e[i]) = q(k, j)
    BY <1>4, <2>2
  <2>4. Index(e[i]) = 255
    OBVIOUS
  <2>5. q(k, j) \in 0..63
    BY <1>2
  <2>6. 255 \notin 0..63
    OBVIOUS
  <2> QED
    BY <2>3, <2>4, <2>5, <2>6
<1>6. Lowest(e, S) = 4 * n - p + 1
  <2>1. CASE p = 0
    <3>1. \A i \in S : FALSE
      <4> SUFFICES ASSUME NEW i \in S PROVE FALSE
        OBVIOUS
      <4>1. i > 4 * n
        BY <1>1, <1>5, <2>1
      <4>2. i \in 1..4 * n
        BY <1>3
      <4> QED
        BY <1>1, <4>1, <4>2
    <3>2. S = {}
      BY <3>1
    <3> HIDE DEF S
    <3>3. Lowest(e, S) = Len(e) + 1
      BY <3>2, LowestOfNone
    <3> QED
      BY <1>1, <1>3, <2>1, <3>3
  <2>2. CASE p # 0
    <3>1. 4 * n - p + 1 \in 1..4 * n /\ 4 * n - p + 1 > 4 * n - p
      BY <1>1, <2>2
    <3>2. e[4 * n - p + 1] = Pad
      BY <1>3, <3>1
    <3>3. 4 * n - p + 1 \in S
      BY <1>3, <3>1, <3>2, PadIsNoIndex
    <3>4. \A i \in S : 4 * n - p + 1 <= i /\ i \in Nat
      BY <1>1, <1>5
    <3> HIDE DEF S
    <3>5. S \subseteq Nat
      BY <3>4
    <3> QED
      BY <3>3, <3>4, <3>5, LowestIs
  <2> QED
    BY <2>1, <2>2
<1>7. Lowest(e, S) - 1 = 4 * n - p
  BY <1>1, <1>6
<1>8. Holds(e, s, 4 * n - p)
  BY <1>4, Zenon DEF q, Holds
<1> QED
  BY <1>7, <1>8

LEMMA Base64Inverts ==
    ASSUME NEW s \in Seq(0..255)
    PROVE  /\ Base64Decode(Base64Encode(s)) = s
           /\ Len(Base64Encode(s)) % 4 = 0
<1>1. PICK n, p : Sized(Len(s), n, p)
  BY DEF Sized
<1>2. PICK e : e = Base64Encode(s)
  OBVIOUS
<1>3. Len(s) \in Nat
  OBVIOUS
<1> DEFINE m == Lowest(e, {i \in 1..Len(e) : Index(e[i]) = 255}) - 1
<1>4. m = 4 * n - p
  BY <1>1, <1>2, SeenAgain
<1>5. /\ n \in Nat /\ 4 * n - p \in Nat
      /\ ((4 * n - p) \div 4) * 3
            + (IF (4 * n - p) % 4 = 0 THEN 0 ELSE ((4 * n - p) % 4) - 1) = Len(s)
  <2>1. /\ n \in Nat /\ 4 * n - p \in 0..4 * n
        /\ ((4 * n - p) \div 4) * 3
              + (IF (4 * n - p) % 4 = 0 THEN 0 ELSE ((4 * n - p) % 4) - 1) = Len(s)
    BY <1>1, <1>3, Lengths
  <2> QED
    BY <2>1
<1>6. /\ m \in Nat
      /\ (m \div 4) * 3 + (IF m % 4 = 0 THEN 0 ELSE (m % 4) - 1) = Len(s)
  <2> HIDE DEF m
  <2> QED
    BY <1>4, <1>5
<1>9. Holds(e, s, m)
  <2>1. Holds(e, s, 4 * n - p)
    BY <1>1, <1>2, SeenAgain
  <2> QED
    BY <1>4, <2>1, Zenon
<1>7. ASSUME NEW k \in Nat, NEW j \in 1..4, 4 * k + j <= m
      PROVE  Index(e[4 * k + j]) = Quadruple(ByteOf(s, 3 * k + 1),
                                      ByteOf(s, 3 * k + 2), ByteOf(s, 3 * k + 3))[j]
  BY <1>7, <1>9 DEF Holds
<1>8. Len(e) % 4 = 0
  <2>1. Len(e) = 4 * n
    BY <1>1, <1>2, Encoded
  <2> QED
    BY <1>5, <2>1
<1> DEFINE seen(i) == IF i <= m THEN Index(e[i]) ELSE 255
           byte(i) == LET g == 4 * ((i - 1) \div 3) IN
                      Triple(seen(g + 1), seen(g + 2), seen(g + 3), seen(g + 4))[((i - 1) % 3) + 1]
<1>10. Base64Decode(e) =
         [i \in 1..(m \div 4) * 3 + (IF m % 4 = 0 THEN 0 ELSE (m % 4) - 1) |-> byte(i)]
  BY DEF Base64Decode
<1> HIDE DEF m
<1>11. Base64Decode(e) = [i \in 1..Len(s) |-> byte(i)]
  <2> HIDE DEF byte
  <2> QED
    BY <1>6, <1>10, Zenon
<1>12. ASSUME NEW i \in 1..Len(s) PROVE byte(i) = s[i]
  <2>1. PICK k \in Nat, r \in 1..3 :
           /\ (i - 1) \div 3 = k /\ ((i - 1) % 3) + 1 = r /\ i = 3 * k + r
           /\ 4 * k + r + 1 <= m
    <3>1. \E k \in Nat : \E r \in 1..3 :
             /\ (i - 1) \div 3 = k /\ ((i - 1) % 3) + 1 = r /\ i = 3 * k + r
             /\ k < n /\ 4 * k + r + 1 <= 4 * n - p
      BY <1>1, <1>3, GroupOf
    <3> QED
      BY <1>4, <3>1
  <2>2. PICK a : a = ByteOf(s, 3 * k + 1)
    OBVIOUS
  <2>3. PICK b : b = ByteOf(s, 3 * k + 2)
    OBVIOUS
  <2>4. PICK c : c = ByteOf(s, 3 * k + 3)
    OBVIOUS
  <2>5. a \in 0..255 /\ b \in 0..255 /\ c \in 0..255
    <3>1. 3 * k + 1 \in Nat \ {0} /\ 3 * k + 2 \in Nat \ {0} /\ 3 * k + 3 \in Nat \ {0}
      OBVIOUS
    <3> QED
      BY <2>2, <2>3, <2>4, <3>1, ByteOfIs
  <2>6. ByteOf(s, 3 * k + r) = s[i]
    <3>1. i \in Nat \ {0} /\ i <= Len(s)
      OBVIOUS
    <3> QED
      BY <2>1, <3>1, ByteOfIs
  <2>7. byte(i) = Triple(seen(4 * k + 1), seen(4 * k + 2), seen(4 * k + 3), seen(4 * k + 4))[r]
    <3>1. (i - 1) \div 3 = k /\ ((i - 1) % 3) + 1 = r
      BY <2>1
    <3> HIDE DEF seen
    <3> QED
      BY <3>1, Zenon
  <2>8. ASSUME NEW j \in 1..4, j <= r + 1 PROVE seen(4 * k + j) = Quadruple(a, b, c)[j]
    <3>1. 4 * k + j <= m
      BY <1>6, <2>1, <2>8
    <3>2. Index(e[4 * k + j]) = Quadruple(a, b, c)[j]
      BY <1>7, <2>2, <2>3, <2>4, <3>1
    <3> QED
      BY <3>1, <3>2
  <2> HIDE DEF seen, byte
  <2>12. /\ Quadruple(a, b, c)[1] = Index1(a)
         /\ Quadruple(a, b, c)[2] = Index2(a, b)
         /\ Quadruple(a, b, c)[3] = Index3(b, c)
         /\ Quadruple(a, b, c)[4] = Index4(c)
    BY IndicesOf
  <2>9. CASE r = 1
    <3>1. seen(4 * k + 1) = Index1(a) /\ seen(4 * k + 2) = Index2(a, b)
      BY <2>8, <2>9, <2>12
    <3>2. \A z, w : Triple(Index1(a), Index2(a, b), z, w)[1] = a
      BY <2>5, FirstByte
    <3>3. s[i] = a
      BY <2>2, <2>6, <2>9
    <3> QED
      BY <2>7, <2>9, <3>1, <3>2, <3>3, Zenon
  <2>10. CASE r = 2
    <3>1. seen(4 * k + 2) = Index2(a, b) /\ seen(4 * k + 3) = Index3(b, c)
      BY <2>8, <2>10, <2>12
    <3>2. \A z, w : Triple(z, Index2(a, b), Index3(b, c), w)[2] = b
      <4>1. SecondIs(a, b, c)
        BY <2>5, SecondByte
      <4> QED
        BY <4>1 DEF SecondIs
    <3>3. s[i] = b
      BY <2>3, <2>6, <2>10
    <3> QED
      BY <2>7, <2>10, <3>1, <3>2, <3>3, Zenon
  <2>11. CASE r = 3
    <3>1. seen(4 * k + 3) = Index3(b, c) /\ seen(4 * k + 4) = Index4(c)
      BY <2>8, <2>11, <2>12
    <3>2. \A z, w : Triple(z, w, Index3(b, c), Index4(c))[3] = c
      BY <2>5, ThirdByte
    <3>3. s[i] = c
      BY <2>4, <2>6, <2>11
    <3> QED
      BY <2>7, <2>11, <3>1, <3>2, <3>3, Zenon
  <2> QED
    BY <2>9, <2>10, <2>11
<1>13. [i \in 1..Len(s) |-> byte(i)] = [i \in 1..Len(s) |-> s[i]]
  <2> HIDE DEF byte
  <2> QED
    BY <1>12
<1>14. s = [i \in 1..Len(s) |-> s[i]]
  OBVIOUS
<1> HIDE DEF byte
<1> QED
  BY <1>2, <1>8, <1>11, <1>13, <1>14

----------------------------------------------------------------------------
TextType == text \in Seq(Bytes)

\* Whatever text of whatever length is converted: base64 and hexadecimal give it
\* back, although the decoder fills an incomplete group with the index of "not
\* found"; hexadecimal up to a zero byte.
THEOREM TextsAreReadBack == TextSpec => []DecodingInverts
<1>1. TextInit => TextType
  BY DEF TextInit, TextType
<1>2. TextType /\ [TextNext]_text => TextType'
  BY DEF TextType, TextNext, Grow
<1>3. TextType => DecodingInverts
  <2>1. ASSUME TextType PROVE text \in Seq(0..255)
    <3>1. \A i \in 1..Len(text) : text[i] \in 0..255
      BY <2>1, BytesAssumption, ElementOfSeq DEF TextType
    <3>2. Len(text) \in Nat /\ text = [i \in 1..Len(text) |-> text[i]]
      BY <2>1 DEF TextType
    <3>3. text \in [1..Len(text) -> 0..255]
      BY <3>1, <3>2
    <3>4. \A len \in Nat : text \in [1..len -> 0..255] => text \in Seq(0..255)
      OBVIOUS
    <3> QED
      BY <3>2, <3>3, <3>4
  <2> QED
    BY <2>1, Base64Inverts, HexInverts DEF DecodingInverts
<1> QED
  BY <1>1, <1>2, <1>3, PTL DEF TextSpec

----------------------------------------------------------------------------
(***************************************************************************)
(* Functions that go from position to position.                            *)
(***************************************************************************)

\* The greatest element of a set of numbers below N.
LEMMA HasGreatest ==
    ASSUME NEW N \in Nat, NEW S, S \subseteq 1..N, S # {}
    PROVE  \E m \in S : \A j \in S : j <= m
<1> DEFINE R == {N - j : j \in S}
<1>1. R \subseteq Nat /\ R # {}
  <2>1. \A j \in S : N - j \in Nat
    OBVIOUS
  <2> QED
    BY <2>1
<1>2. PICK k \in R : \A j \in R : k <= j
  BY <1>1, HasLeast
<1>3. PICK m \in S : k = N - m
  BY <1>2
<1>4. \A j \in S : N - m <= N - j
  BY <1>2, <1>3
<1> QED
  BY <1>4

\* A function that goes from a position to a later one until it ends there: what it
\* is at a position, given what it is at the next.
Chain(N, head, last, next, r) ==
    [p \in 1..N |-> IF p \in last THEN head[p] ELSE head[p] \o r[next[p]]]

\* At each position a sequence over V.
Parts(N, V, head) == head \in [1..N -> Seq(V)]

\* It ends.
Leads(N, last, next) == \A p \in 1..N : p \in last \/ next[p] \in p + 1..N

\* There is but one such function.
LEMMA ChainIsOne ==
    ASSUME NEW N \in Nat, NEW head, NEW last, NEW next, Leads(N, last, next),
           NEW r1, r1 = Chain(N, head, last, next, r1),
           NEW r2, r2 = Chain(N, head, last, next, r2)
    PROVE  r1 = r2
<1> DEFINE S == {p \in 1..N : r1[p] # r2[p]}
<1>1. ASSUME S # {} PROVE FALSE
  <2>1. PICK m \in S : \A j \in S : j <= m
    BY <1>1, HasGreatest
  <2>2. m \notin last /\ next[m] \in m + 1..N
    BY <2>1 DEF Chain, Leads
  <2>3. next[m] \notin S /\ next[m] \in 1..N
    BY <2>1, <2>2
  <2>4. r1[next[m]] = r2[next[m]]
    BY <2>3
  <2>5. r1[m] = head[m] \o r1[next[m]] /\ r2[m] = head[m] \o r2[next[m]]
    BY <2>1, <2>2 DEF Chain
  <2> QED
    BY <2>1, <2>4, <2>5
<1>2. \A p \in 1..N : r1[p] = r2[p]
  BY <1>1
<1>3. r1 = [p \in 1..N |-> r1[p]] /\ r2 = [p \in 1..N |-> r2[p]]
  BY DEF Chain
<1> QED
  BY <1>2, <1>3

\* And there is one, whose values are sequences over V.
LEMMA ChainIs ==
    ASSUME NEW N \in Nat, NEW V, NEW head, Parts(N, V, head), NEW last, NEW next,
           Leads(N, last, next)
    PROVE  \E r : Parts(N, V, r) /\ r = Chain(N, head, last, next, r)
<1> DEFINE Partial(k, r) ==
               \A p \in N - k + 1..N :
                  r[p] = IF p \in last THEN head[p] ELSE head[p] \o r[next[p]]
           T == {k \in 0..N : ~ \E r \in [1..N -> Seq(V)] : Partial(k, r)}
<1>0. head \in [1..N -> Seq(V)]
  BY DEF Parts
<1>10. T \subseteq 0..N
  <2> HIDE DEF Partial
  <2> QED
    OBVIOUS
<1>1. ASSUME T # {} PROVE FALSE
  <2>1. PICK k \in T : \A j \in T : k <= j
    <3>1. T \subseteq Nat
      BY <1>10
    <3> HIDE DEF T
    <3> QED
      BY <1>1, <3>1, HasLeast
  <2>2. k # 0
    <3>1. [p \in 1..N |-> <<>>] \in [1..N -> Seq(V)]
      OBVIOUS
    <3>2. Partial(0, [p \in 1..N |-> <<>>])
      OBVIOUS
    <3> QED
      BY <2>1, <3>1, <3>2
  <2>3. k \in 1..N /\ k - 1 \in 0..N /\ k - 1 \notin T
    <3>1. k \in 1..N
      BY <1>10, <2>1, <2>2
    <3>2. \A j \in T : k <= j
      BY <2>1
    <3> HIDE DEF T
    <3> QED
      BY <3>1, <3>2
  <2>4. PICK r \in [1..N -> Seq(V)] : Partial(k - 1, r)
    <3> HIDE DEF Partial
    <3> QED
      BY <2>3
  <2> DEFINE m == N - k + 1
             v == IF m \in last THEN head[m] ELSE head[m] \o r[next[m]]
             q == [r EXCEPT ![m] = v]
  <2>5. m \in 1..N /\ (m \in last \/ next[m] \in m + 1..N)
    BY <2>3 DEF Leads
  <2>6. v \in Seq(V)
    <3>1. head[m] \in Seq(V)
      BY <1>0, <2>5
    <3>2. CASE m \in last
      BY <3>1, <3>2
    <3>3. CASE m \notin last
      <4>1. next[m] \in 1..N
        BY <2>5, <3>3
      <4>2. r[next[m]] \in Seq(V)
        BY <2>4, <4>1
      <4> QED
        BY <3>1, <3>3, <4>2
    <3> QED
      BY <3>2, <3>3
  <2>7. q \in [1..N -> Seq(V)] /\ q[m] = v /\ \A p \in 1..N : p # m => q[p] = r[p]
    <3> HIDE DEF v, m
    <3> QED
      BY <2>4, <2>5, <2>6
  <2>8. ASSUME NEW p \in m..N
        PROVE  q[p] = IF p \in last THEN head[p] ELSE head[p] \o q[next[p]]
    <3>1. p \in 1..N /\ (p = m \/ p \in N - (k - 1) + 1..N)
      BY <2>3, <2>5, <2>8
    <3>2. p \in last \/ (next[p] \in 1..N /\ next[p] # m)
      <4>1. p \in last \/ next[p] \in p + 1..N
        BY <3>1 DEF Leads
      <4> QED
        BY <2>5, <2>8, <3>1, <4>1
    <3>3. p \in last \/ q[next[p]] = r[next[p]]
      BY <2>7, <3>2
    <3>4. CASE p = m
      BY <2>7, <3>3, <3>4
    <3>5. CASE p # m
      <4>1. q[p] = r[p]
        BY <2>7, <3>1, <3>5
      <4>2. r[p] = IF p \in last THEN head[p] ELSE head[p] \o r[next[p]]
        BY <2>4, <3>1, <3>5
      <4> HIDE DEF q
      <4> QED
        BY <3>3, <4>1, <4>2
    <3> QED
      BY <3>4, <3>5
  <2>9. Partial(k, q)
    BY <2>8
  <2> HIDE DEF q, Partial
  <2> QED
    BY <2>1, <2>7, <2>9
<1>2. N \notin T
  BY <1>1
<1>3. PICK r \in [1..N -> Seq(V)] : Partial(N, r)
  <2> HIDE DEF Partial
  <2> QED
    BY <1>2
<1>4. \A p \in 1..N : r[p] = IF p \in last THEN head[p] ELSE head[p] \o r[next[p]]
  <2>1. N - N + 1 = 1
    OBVIOUS
  <2>2. Partial(N, r)
    BY <1>3
  <2> QED
    BY <2>1, <2>2, Zenon
<1>5. r = [p \in 1..N |-> r[p]]
  BY <1>3
<1>6. r = Chain(N, head, last, next, r)
  BY <1>4, <1>5 DEF Chain
<1> QED
  BY <1>6, Zenon DEF Parts

----------------------------------------------------------------------------
(***************************************************************************)
(* Splitting and replacing, as such functions.                             *)
(***************************************************************************)

\* Texts, and texts without a delimiter.
Texts == Seq(0..255)
Plain == Seq((0..255) \ {Delim})

\* One step of each recursion, given the rest r.
CollapseAt(s, r) ==
    [i \in 1..Npos(s) |->
        IF i = Npos(s) THEN <<>>
        ELSE (IF i < Len(s) /\ s[i] = Delim /\ s[i + 1] = Delim THEN <<>> ELSE <<s[i]>>)
                 \o r[i + 1]]

JoinAt(parts, r) ==
    [i \in 1..Len(parts) |->
        IF i = Len(parts) THEN parts[i] ELSE parts[i] \o <<Delim>> \o r[i + 1]]

SplitAt(s, r) ==
    [pos \in 1..Npos(s) |->
        LET pos2 == FindFirstOf(s, {Delim}, pos)
            next == FindFirstNotOf(s, {Delim}, pos2) IN
        <<Between(s, pos, pos2)>>
            \o (IF next # Npos(s) THEN r[next]
                ELSE IF pos2 # Npos(s) THEN <<<<>>>> ELSE <<>>)]

ReplaceAt(s, from, to, r) ==
    [pos \in 1..Npos(s) |->
        LET f == Find(s, from, pos) IN
        IF f = Npos(s) THEN SubSeq(s, pos, Len(s))
        ELSE Between(s, pos, f) \o to \o r[f + Len(from)]]

ReplaceAnyAt(s, from, to, r) ==
    [pos2 \in 1..Npos(s) |->
        LET pos == FindFirstOf(s, from, pos2)
            next == FindFirstNotOf(s, from, pos) IN
        IF next = Npos(s) THEN Between(s, pos2, pos)
        ELSE Between(s, pos2, pos) \o to \o r[next]]

\* r is such a function of s.
Collapses(s, r) == r \in [1..Npos(s) -> Texts] /\ r = CollapseAt(s, r)
Splits(s, r) == r \in [1..Npos(s) -> Seq(Plain)] /\ r = SplitAt(s, r)

\* The function that a definition chooses is the only one there is.
LEMMA CollapsedTakes ==
    ASSUME NEW s, NEW r, r = CollapseAt(s, r), \A r2 : r2 = CollapseAt(s, r2) => r2 = r
    PROVE  Collapsed(s) = r[1]
BY Zenon DEF Collapsed, CollapseAt

LEMMA JoinedTakes ==
    ASSUME NEW parts, parts # <<>>, NEW r, r = JoinAt(parts, r),
           \A r2 : r2 = JoinAt(parts, r2) => r2 = r
    PROVE  Joined(parts) = r[1]
BY Zenon DEF Joined, JoinAt

LEMMA SplitTakes ==
    ASSUME NEW s, NEW r, r = SplitAt(s, r), \A r2 : r2 = SplitAt(s, r2) => r2 = r
    PROVE  Split(s, {Delim}) = r[1]
BY Zenon DEF Split, SplitAt

LEMMA ReplaceTakes ==
    ASSUME NEW s, NEW from, NEW to, NEW r, r = ReplaceAt(s, from, to, r),
           \A r2 : r2 = ReplaceAt(s, from, to, r2) => r2 = r
    PROVE  Replace(s, from, to) = r[1]
BY Zenon DEF Replace, ReplaceAt

LEMMA ReplaceAnyTakes ==
    ASSUME NEW s, NEW from, NEW to, NEW r, r = ReplaceAnyAt(s, from, to, r),
           \A r2 : r2 = ReplaceAnyAt(s, from, to, r2) => r2 = r
    PROVE  ReplaceAny(s, from, to) =
             IF FindFirstNotOf(s, from, 1) = Npos(s) THEN Throws
             ELSE r[FindFirstNotOf(s, from, 1)]
BY Zenon DEF ReplaceAny, ReplaceAnyAt

\* Where a search for the positions S ends, between p and the end.
LEMMA LowestIsOne ==
    ASSUME NEW s, NEW n \in Nat, Len(s) = n, NEW p \in 1..n + 1, NEW S, S \subseteq p..n
    PROVE  /\ Lowest(s, S) \in p..n + 1
           /\ \A j \in S : Lowest(s, S) <= j
           /\ Lowest(s, S) = n + 1 \/ Lowest(s, S) \in S
           /\ S = {} <=> Lowest(s, S) = n + 1
<1>1. CASE S = {}
  BY <1>1, LowestOfNone
<1>2. CASE S # {}
  <2>1. S \subseteq Nat
    OBVIOUS
  <2>2. PICK m \in S : \A j \in S : m <= j
    BY <1>2, <2>1, HasLeast
  <2>3. Lowest(s, S) = m
    BY <2>1, <2>2, LowestIs
  <2> QED
    BY <1>2, <2>2, <2>3
<1> QED
  BY <1>1, <1>2

\* Where a search from p ends: at the first byte of B, or at the end.
LEMMA FirstOfIs ==
    ASSUME NEW s, NEW n \in Nat, Len(s) = n, NEW B, NEW p \in 1..n + 1
    PROVE  LET e == FindFirstOf(s, B, p) IN
           /\ e \in p..n + 1
           /\ \A j \in p..e - 1 : s[j] \notin B
           /\ e = n + 1 \/ s[e] \in B
<1> DEFINE S == {i \in p..n : s[i] \in B}
<1>1. FindFirstOf(s, B, p) = Lowest(s, S)
  BY DEF FindFirstOf
<1>2. S \subseteq p..n
  OBVIOUS
<1>3. /\ Lowest(s, S) \in p..n + 1
      /\ \A j \in S : Lowest(s, S) <= j
      /\ Lowest(s, S) = n + 1 \/ Lowest(s, S) \in S
  <2> HIDE DEF S
  <2> QED
    BY <1>2, LowestIsOne
<1> DEFINE e == Lowest(s, S)
<1>4. \A j \in p..e - 1 : s[j] \notin B
  <2>1. \A j \in p..e - 1 : j \in p..n /\ ~(e <= j)
    BY <1>3
  <2> QED
    BY <1>3, <2>1
<1> HIDE DEF S
<1>5. e = n + 1 \/ s[e] \in B
  BY <1>3 DEF S
<1> QED
  BY <1>1, <1>3, <1>4, <1>5

LEMMA FirstNotOfIs ==
    ASSUME NEW s, NEW n \in Nat, Len(s) = n, NEW B, NEW p \in 1..n + 1
    PROVE  LET e == FindFirstNotOf(s, B, p) IN
           /\ e \in p..n + 1
           /\ \A j \in p..e - 1 : s[j] \in B
           /\ e = n + 1 \/ s[e] \notin B
<1> DEFINE S == {i \in p..n : s[i] \notin B}
<1>1. FindFirstNotOf(s, B, p) = Lowest(s, S)
  BY DEF FindFirstNotOf
<1>2. S \subseteq p..n
  OBVIOUS
<1>3. /\ Lowest(s, S) \in p..n + 1
      /\ \A j \in S : Lowest(s, S) <= j
      /\ Lowest(s, S) = n + 1 \/ Lowest(s, S) \in S
  <2> HIDE DEF S
  <2> QED
    BY <1>2, LowestIsOne
<1> DEFINE e == Lowest(s, S)
<1>4. \A j \in p..e - 1 : s[j] \in B
  <2>1. \A j \in p..e - 1 : j \in p..n /\ ~(e <= j)
    BY <1>3
  <2> QED
    BY <1>3, <2>1
<1> HIDE DEF S
<1>5. e = n + 1 \/ s[e] \notin B
  BY <1>3 DEF S
<1> QED
  BY <1>1, <1>3, <1>4, <1>5

\* From p to the delimiter at e, or to the end, and from there to the next byte, at f,
\* that is none.
Piece(s, p, e, f) ==
    /\ e = FindFirstOf(s, {Delim}, p) /\ f = FindFirstNotOf(s, {Delim}, e)
    /\ e \in p..Npos(s) /\ f \in e..Npos(s)
    /\ \A j \in p..e - 1 : s[j] # Delim
    /\ \A j \in e..f - 1 : s[j] = Delim
    /\ e # Npos(s) => s[e] = Delim /\ e < f
    /\ f # Npos(s) => s[f] # Delim

LEMMA HasPiece ==
    ASSUME NEW s \in Texts, NEW p \in 1..Npos(s)
    PROVE  \E e, f : Piece(s, p, e, f)
<1> DEFINE e == FindFirstOf(s, {Delim}, p)
           f == FindFirstNotOf(s, {Delim}, e)
<1>1. PICK n \in Nat : Len(s) = n
  BY DEF Texts
<1>2. p \in 1..n + 1 /\ Npos(s) = n + 1
  BY <1>1 DEF Npos
<1>3. e \in p..n + 1 /\ (\A j \in p..e - 1 : s[j] \notin {Delim}) /\ (e = n + 1 \/ s[e] \in {Delim})
  BY <1>1, <1>2, FirstOfIs
<1>4. e \in 1..n + 1
  BY <1>2, <1>3
<1> HIDE DEF e
<1>5. f \in e..n + 1 /\ (\A j \in e..f - 1 : s[j] \in {Delim}) /\ (f = n + 1 \/ s[f] \notin {Delim})
  BY <1>1, <1>4, FirstNotOfIs
<1> HIDE DEF f
<1>6. e # n + 1 => e < f
  BY <1>2, <1>3, <1>5
<1>7. Piece(s, p, e, f)
  <2>1. e = FindFirstOf(s, {Delim}, p) /\ f = FindFirstNotOf(s, {Delim}, e)
    BY DEF e, f
  <2> QED
    BY <1>2, <1>3, <1>5, <1>6, <2>1 DEF Piece
<1> QED
  BY <1>7

\* The bytes of a text, and of a part of it.
LEMMA BytesOf ==
    ASSUME NEW s \in Texts
    PROVE  /\ Len(s) \in Nat /\ Npos(s) = Len(s) + 1 /\ Npos(s) \in Nat
           /\ \A i \in 1..Len(s) : s[i] \in 0..255
BY ElementOfSeq DEF Texts, Npos

LEMMA BetweenIs ==
    ASSUME NEW s \in Texts, NEW p \in 1..Npos(s), NEW e \in p..Npos(s)
    PROVE  /\ Between(s, p, e) \in Texts
           /\ Len(Between(s, p, e)) = e - p
           /\ \A i \in 1..e - p : Between(s, p, e)[i] = s[p + i - 1]
<1>1. p \in Int /\ e - 1 \in Int /\ p <= e /\ \A i \in p..e - 1 : s[i] \in 0..255
  <2>1. Npos(s) = Len(s) + 1 /\ Len(s) \in Nat
    BY BytesOf
  <2>2. \A i \in p..e - 1 : i \in 1..Len(s)
    BY <2>1
  <2> QED
    BY <2>1, <2>2, BytesOf
<1>2. /\ SubSeq(s, p, e - 1) \in Seq(0..255)
      /\ Len(SubSeq(s, p, e - 1)) = IF p <= e - 1 THEN e - 1 - p + 1 ELSE 0
      /\ \A i \in 1..e - 1 - p + 1 : SubSeq(s, p, e - 1)[i] = s[p + i - 1]
  BY <1>1, SubSeqProperties
<1> QED
  BY <1>1, <1>2 DEF Between, Texts

\* A piece has no delimiter in it.
LEMMA PlainPiece ==
    ASSUME NEW s \in Texts, NEW p \in 1..Npos(s), NEW e, NEW f, Piece(s, p, e, f)
    PROVE  Between(s, p, e) \in Plain
<1>1. e \in p..Npos(s) /\ \A j \in p..e - 1 : s[j] # Delim
  BY DEF Piece
<1>2. p \in Int /\ e - 1 \in Int /\ \A i \in p..e - 1 : s[i] \in (0..255) \ {Delim}
  <2>1. Npos(s) = Len(s) + 1 /\ Len(s) \in Nat
    BY BytesOf
  <2>2. \A i \in p..e - 1 : i \in 1..Len(s)
    BY <1>1, <2>1
  <2> QED
    BY <1>1, <2>1, <2>2, BytesOf
<1> QED
  BY <1>2, SubSeqProperties DEF Between, Plain

\* There is a function for each of the recursions, and what it yields are texts.
LEMMA CollapsedIs ==
    ASSUME NEW s \in Texts
    PROVE  \E r : Collapses(s, r) /\ Collapsed(s) = r[1]
<1> DEFINE N == Npos(s)
           head == [i \in 1..N |->
                      IF i = N THEN <<>>
                      ELSE IF i < Len(s) /\ s[i] = Delim /\ s[i + 1] = Delim THEN <<>> ELSE <<s[i]>>]
           last == {N}
           next == [i \in 1..N |-> i + 1]
<1>1. N \in Nat /\ \A i \in 1..N : i # N => s[i] \in 0..255
  BY BytesOf
<1>2. head \in [1..N -> Texts]
  <2>1. <<>> \in Texts /\ \A x \in 0..255 : <<x>> \in Texts
    BY DEF Texts
  <2> QED
    BY <1>1, <2>1
<1>3. Leads(N, last, next)
  BY <1>1 DEF Leads
<1>4. ASSUME NEW r PROVE Chain(N, head, last, next, r) = CollapseAt(s, r)
  BY DEF Chain, CollapseAt
<1> HIDE DEF N, head, last, next
<1>5. PICK r : r \in [1..N -> Texts] /\ r = Chain(N, head, last, next, r)
  <2>1. N \in Nat
    BY <1>1
  <2>2. Parts(N, 0..255, head)
    BY <1>2, Zenon DEF Texts, Parts
  <2>3. \E r : Parts(N, 0..255, r) /\ r = Chain(N, head, last, next, r)
    BY <1>3, <2>1, <2>2, ChainIs, ZenonT(60)
  <2> QED
    BY <2>3, Zenon DEF Texts, Parts
<1>6. r = CollapseAt(s, r)
  BY <1>4, <1>5
<1>7. ASSUME NEW r2, r2 = CollapseAt(s, r2) PROVE r2 = r
  BY <1>1, <1>3, <1>4, <1>5, <1>7, ChainIsOne
<1>8. Collapsed(s) = r[1]
  BY <1>6, <1>7, CollapsedTakes
<1> QED
  BY <1>5, <1>6, <1>8 DEF N, Collapses

LEMMA JoinedIs ==
    ASSUME NEW parts \in Seq(Texts), parts # <<>>
    PROVE  \E r \in [1..Len(parts) -> Texts] :
              /\ r = JoinAt(parts, r)
              /\ \A r2 : r2 = JoinAt(parts, r2) => r2 = r
              /\ Joined(parts) = r[1]
<1> DEFINE N == Len(parts)
           head == [i \in 1..N |-> IF i = N THEN parts[i] ELSE parts[i] \o <<Delim>>]
           last == {N}
           next == [i \in 1..N |-> i + 1]
<1>1. N \in Nat /\ \A i \in 1..N : parts[i] \in Texts
  BY ElementOfSeq
<1>2. head \in [1..N -> Texts]
  <2>1. <<Delim>> \in Seq(0..255)
    BY BytesAssumption
  <2>2. \A i \in 1..N : parts[i] \o <<Delim>> \in Texts
    BY <1>1, <2>1, ConcatProperties DEF Texts
  <2> QED
    BY <1>1, <2>2
<1>3. Leads(N, last, next)
  BY <1>1 DEF Leads
<1>4. ASSUME NEW r PROVE Chain(N, head, last, next, r) = JoinAt(parts, r)
  BY DEF Chain, JoinAt
<1> HIDE DEF N, head, last, next
<1>5. PICK r : r \in [1..N -> Texts] /\ r = Chain(N, head, last, next, r)
  <2>1. N \in Nat
    BY <1>1
  <2>2. Parts(N, 0..255, head)
    BY <1>2, Zenon DEF Texts, Parts
  <2>3. \E r : Parts(N, 0..255, r) /\ r = Chain(N, head, last, next, r)
    BY <1>3, <2>1, <2>2, ChainIs, ZenonT(60)
  <2> QED
    BY <2>3, Zenon DEF Texts, Parts
<1>6. r = JoinAt(parts, r)
  BY <1>4, <1>5
<1>7. ASSUME NEW r2, r2 = JoinAt(parts, r2) PROVE r2 = r
  BY <1>1, <1>3, <1>4, <1>5, <1>7, ChainIsOne
<1>8. Joined(parts) = r[1]
  BY <1>6, <1>7, JoinedTakes
<1> QED
  BY <1>5, <1>6, <1>7, <1>8 DEF N

LEMMA SplitIs ==
    ASSUME NEW s \in Texts
    PROVE  \E r : Splits(s, r) /\ Split(s, {Delim}) = r[1]
<1> DEFINE N == Npos(s)
           to(i) == FindFirstOf(s, {Delim}, i)
           from(i) == FindFirstNotOf(s, {Delim}, to(i))
           head == [i \in 1..N |->
                      IF from(i) # N THEN <<Between(s, i, to(i))>>
                      ELSE <<Between(s, i, to(i))>> \o (IF to(i) # N THEN <<<<>>>> ELSE <<>>)]
           last == {i \in 1..N : from(i) = N}
           next == [i \in 1..N |-> from(i)]
<1>1. N \in Nat
  BY BytesOf
<1>2. ASSUME NEW i \in 1..N
      PROVE  /\ Between(s, i, to(i)) \in Plain
             /\ from(i) = N \/ from(i) \in i + 1..N
  <2>1. PICK e, f : Piece(s, i, e, f)
    BY HasPiece
  <2>2. e = to(i) /\ f = from(i)
    BY <2>1 DEF Piece
  <2>3. Between(s, i, e) \in Plain
    BY <2>1, PlainPiece
  <2>4. f = N \/ f \in i + 1..N
    BY <1>1, <2>1 DEF Piece
  <2> QED
    BY <2>2, <2>3, <2>4
<1>3. head \in [1..N -> Seq(Plain)]
  <2> DEFINE b(i) == Between(s, i, to(i))
  <2>1. <<>> \in Plain
    BY DEF Plain
  <2>2. <<>> \in Seq(Plain) /\ <<<<>>>> \in Seq(Plain) /\ \A x \in Plain : <<x>> \in Seq(Plain)
    BY <2>1
  <2>3. \A y, z \in Seq(Plain) : y \o z \in Seq(Plain)
    BY ConcatProperties
  <2>4. \A i \in 1..N : b(i) \in Plain
    BY <1>2
  <2> HIDE DEF b
  <2>5. \A i \in 1..N : <<b(i)>> \in Seq(Plain) /\ <<b(i)>> \o <<<<>>>> \in Seq(Plain) /\ <<b(i)>> \o <<>> \in Seq(Plain)
    BY <2>2, <2>3, <2>4
  <2> HIDE DEF to, from
  <2> QED
    BY <2>5 DEF b
<1>4. Leads(N, last, next)
  <2> HIDE DEF from
  <2> QED
    BY <1>2 DEF Leads
<1>5. ASSUME NEW r PROVE Chain(N, head, last, next, r) = SplitAt(s, r)
  <2>1. ASSUME NEW i \in 1..N
        PROVE  (IF i \in last THEN head[i] ELSE head[i] \o r[next[i]]) =
                  <<Between(s, i, to(i))>>
                     \o (IF from(i) # N THEN r[from(i)]
                         ELSE IF to(i) # N THEN <<<<>>>> ELSE <<>>)
    <3> HIDE DEF to, from
    <3> QED
      OBVIOUS
  <2> HIDE DEF head, last, next
  <2> QED
    BY <2>1 DEF Chain, SplitAt
<1> HIDE DEF N, head, last, next
<1>6. PICK r : r \in [1..N -> Seq(Plain)] /\ r = Chain(N, head, last, next, r)
  <2>1. Parts(N, Plain, head)
    BY <1>3, Zenon DEF Parts
  <2>2. \E r : Parts(N, Plain, r) /\ r = Chain(N, head, last, next, r)
    BY <1>1, <1>4, <2>1, ChainIs, Zenon
  <2> QED
    BY <2>2, Zenon DEF Parts
<1>7. r = SplitAt(s, r)
  BY <1>5, <1>6
<1>8. ASSUME NEW r2, r2 = SplitAt(s, r2) PROVE r2 = r
  BY <1>1, <1>4, <1>5, <1>6, <1>8, ChainIsOne
<1>9. Split(s, {Delim}) = r[1]
  BY <1>7, <1>8, SplitTakes
<1> QED
  BY <1>6, <1>7, <1>9 DEF N, Splits

----------------------------------------------------------------------------
(***************************************************************************)
(* Splitting a text and joining its parts.                                 *)
(***************************************************************************)

\* Texts, concatenated.
LEMMA Concats ==
    ASSUME NEW x \in Texts, NEW y \in Texts
    PROVE  /\ x \o y \in Texts
           /\ \A z \in Texts : (x \o y) \o z = x \o (y \o z)
           /\ x \o <<>> = x /\ <<>> \o x = x
           /\ <<>> \in Texts /\ <<Delim>> \in Texts
<1>1. <<Delim>> \in Seq(0..255)
  BY BytesAssumption
<1> QED
  <2>1. x \o y \in Texts
    BY ConcatProperties DEF Texts
  <2>2. \A z \in Texts : (x \o y) \o z = x \o (y \o z)
    BY ConcatAssociative, SMTT(30) DEF Texts
  <2>3. x \o <<>> = x /\ <<>> \o x = x
    BY ConcatEmptySeq DEF Texts
  <2>4. <<>> \in Texts /\ <<Delim>> \in Texts
    BY <1>1 DEF Texts
  <2> QED
    BY <2>1, <2>2, <2>3, <2>4

\* Concatenation, grouped the other way.
LEMMA Regroup ==
    ASSUME NEW x \in Texts, NEW y \in Texts, NEW z \in Texts
    PROVE  x \o (y \o z) = (x \o y) \o z
BY ConcatAssociative, SMTT(30) DEF Texts

\* One more byte in front.
LEMMA BetweenFrom ==
    ASSUME NEW s \in Texts, NEW p \in 1..Len(s), NEW e \in p + 1..Npos(s)
    PROVE  <<s[p]>> \in Texts /\ Between(s, p, e) = <<s[p]>> \o Between(s, p + 1, e)
<1>1. Len(s) \in Nat /\ Npos(s) = Len(s) + 1 /\ s[p] \in 0..255
  BY BytesOf
<1>2. e - 1 \in p..Len(s)
  BY <1>1
<1>3. SubSeq(s, p, e - 1) = <<s[p]>> \o SubSeq(s, p + 1, e - 1)
  BY <1>2, SubSeqRecursiveFirst DEF Texts
<1> QED
  BY <1>1, <1>3 DEF Between, Texts

LEMMA BetweenNone ==
    ASSUME NEW s, NEW p \in Int
    PROVE  Between(s, p, p) = <<>>
BY SubSeqEmpty DEF Between

\* The bytes one by one.
LEMMA CollapsedStep ==
    ASSUME NEW s \in Texts, NEW r, Collapses(s, r)
    PROVE  /\ r[Len(s) + 1] = <<>>
           /\ \A i \in 1..Len(s) :
                 r[i] = (IF i < Len(s) /\ s[i] = Delim /\ s[i + 1] = Delim THEN <<>> ELSE <<s[i]>>)
                           \o r[i + 1]
           /\ \A i \in 1..Len(s) + 1 : r[i] \in Texts
<1>1. Len(s) \in Nat /\ Npos(s) = Len(s) + 1
  BY BytesOf
<1>2. ASSUME NEW i \in 1..Npos(s)
      PROVE  r[i] = IF i = Npos(s) THEN <<>>
                    ELSE (IF i < Len(s) /\ s[i] = Delim /\ s[i + 1] = Delim THEN <<>> ELSE <<s[i]>>)
                            \o r[i + 1]
  <2>1. r[i] = CollapseAt(s, r)[i]
    BY Zenon DEF Collapses
  <2> QED
    BY <2>1, Zenon DEF CollapseAt
<1>3. Len(s) + 1 = Npos(s) /\ Npos(s) \in 1..Npos(s)
  BY <1>1
<1>4. \A i \in 1..Len(s) : i \in 1..Npos(s) /\ i # Npos(s)
  BY <1>1
<1>5. r[Len(s) + 1] = <<>>
  BY <1>2, <1>3, Zenon
<1>6. \A i \in 1..Len(s) :
         r[i] = (IF i < Len(s) /\ s[i] = Delim /\ s[i + 1] = Delim THEN <<>> ELSE <<s[i]>>) \o r[i + 1]
  BY <1>2, <1>4, Zenon
<1>7. \A i \in 1..Len(s) + 1 : r[i] \in Texts
  BY <1>1 DEF Collapses
<1> QED
  BY <1>5, <1>6, <1>7, Zenon

\* A piece stays as it is, and the delimiters after it become one.
LEMMA CollapsedPiece ==
    ASSUME NEW s \in Texts, NEW r, Collapses(s, r),
           NEW p \in 1..Npos(s), NEW e, NEW f, Piece(s, p, e, f)
    PROVE  r[p] = Between(s, p, e) \o (IF e = Npos(s) THEN <<>> ELSE <<Delim>> \o r[f])
<1> DEFINE n == Len(s)
<1>1. n \in Nat /\ Npos(s) = n + 1
  BY BytesOf
<1>2. /\ e \in p..n + 1 /\ f \in e..n + 1 /\ p \in 1..n + 1
      /\ \A j \in p..e - 1 : s[j] # Delim
      /\ \A j \in e..f - 1 : s[j] = Delim
      /\ e # n + 1 => s[e] = Delim /\ e < f
      /\ f # n + 1 => s[f] # Delim
  BY <1>1 DEF Piece
<1>3. /\ r[n + 1] = <<>>
      /\ \A i \in 1..n : r[i] = (IF i < n /\ s[i] = Delim /\ s[i + 1] = Delim THEN <<>> ELSE <<s[i]>>)
                                   \o r[i + 1]
  BY CollapsedStep, Zenon
<1>4. \A i \in 1..n + 1 : r[i] \in Texts
  BY CollapsedStep, Zenon
<1> HIDE DEF n
<1>5. r[p] = Between(s, p, e) \o r[e]
  <2> DEFINE S == {q \in p..e : r[q] # Between(s, q, e) \o r[e]}
  <2>1. ASSUME S # {} PROVE FALSE
    <3>1. PICK q \in S : \A j \in S : j <= q
      <4>1. S \subseteq 1..n + 1 /\ n + 1 \in Nat
        BY <1>1, <1>2
      <4> HIDE DEF S
      <4> QED
        BY <2>1, <4>1, HasGreatest
    <3>2. q \in p..e /\ r[q] # Between(s, q, e) \o r[e]
      OBVIOUS
    <3>3. CASE q = e
      <4>1. Between(s, e, e) = <<>>
        BY <1>2, BetweenNone
      <4>2. r[e] \in Texts
        BY <1>1, <1>2, <1>4
      <4> QED
        BY <3>2, <3>3, <4>1, <4>2, Concats
    <3>4. CASE q # e
      <4>1. q \in 1..n /\ q + 1 \in p..e /\ e \in q + 1..n + 1 /\ q \in p..e - 1 /\ ~(q + 1 <= q)
        BY <1>1, <1>2, <3>2, <3>4
      <4>2. r[q] = <<s[q]>> \o r[q + 1]
        BY <1>2, <1>3, <4>1
      <4>3. r[q + 1] = Between(s, q + 1, e) \o r[e]
        BY <3>1, <4>1
      <4>4. <<s[q]>> \in Texts /\ Between(s, q, e) = <<s[q]>> \o Between(s, q + 1, e)
        BY <1>1, <4>1, BetweenFrom DEF n
      <4>5. Between(s, q + 1, e) \in Texts /\ r[e] \in Texts
        <5>1. q + 1 \in 1..Npos(s) /\ e \in q + 1..Npos(s)
          BY <1>1, <4>1
        <5>2. e \in 1..n + 1
          BY <1>1, <1>2
        <5>3. r[e] \in Texts
          BY <1>4, <5>2
        <5>4. Between(s, q + 1, e) \in Texts
          BY <5>1, BetweenIs
        <5> QED
          BY <5>3, <5>4
      <4>6. <<s[q]>> \o (Between(s, q + 1, e) \o r[e]) = (<<s[q]>> \o Between(s, q + 1, e)) \o r[e]
        BY <4>4, <4>5, Regroup, Zenon
      <4>7. r[q] = Between(s, q, e) \o r[e]
        BY <4>2, <4>3, <4>4, <4>6
      <4> QED
        BY <3>2, <4>7
    <3> QED
      BY <3>3, <3>4
  <2>2. p \in p..e /\ p \notin S
    <3>1. p \in p..e
      BY <1>1, <1>2
    <3> HIDE DEF S
    <3> QED
      BY <2>1, <3>1
  <2> QED
    BY <2>2
<1>6. CASE e = n + 1
  BY <1>1, <1>3, <1>5, <1>6
<1>7. CASE e # n + 1
  <2> DEFINE S == {q \in e..f - 1 : r[q] # <<Delim>> \o r[f]}
  <2>0. e \in 1..n /\ f \in 1..n + 1 /\ e \in e..f - 1
    BY <1>1, <1>2, <1>7
  <2>1. ASSUME S # {} PROVE FALSE
    <3>1. PICK q \in S : \A j \in S : j <= q
      <4>1. S \subseteq 1..n + 1 /\ n + 1 \in Nat
        BY <1>1, <2>0
      <4> HIDE DEF S
      <4> QED
        BY <2>1, <4>1, HasGreatest
    <3>2. q \in e..f - 1 /\ r[q] # <<Delim>> \o r[f] /\ q \in 1..n /\ s[q] = Delim
      BY <1>1, <1>2, <2>0
    <3>3. CASE q = f - 1
      <4>1. q + 1 = f /\ ~(q < n /\ s[q + 1] = Delim)
        BY <1>1, <1>2, <2>0, <3>3
      <4>2. r[q] = <<s[q]>> \o r[q + 1]
        BY <1>3, <3>2, <4>1
      <4> QED
        BY <3>2, <4>1, <4>2
    <3>4. CASE q # f - 1
      <4>1. q + 1 \in e..f - 1 /\ q < n /\ q + 1 \in 1..n + 1 /\ ~(q + 1 <= q)
        BY <1>1, <2>0, <3>2, <3>4
      <4>2. s[q + 1] = Delim
        BY <1>2, <4>1
      <4>3. r[q] = <<>> \o r[q + 1]
        BY <1>3, <3>2, <4>1, <4>2
      <4>4. r[q + 1] = <<Delim>> \o r[f]
        BY <3>1, <4>1
      <4>5. r[q] = r[q + 1]
        BY <1>4, <4>1, <4>3, Concats
      <4> QED
        BY <3>2, <4>4, <4>5
    <3> QED
      BY <3>3, <3>4
  <2>2. e \notin S
    <3> HIDE DEF S
    <3> QED
      BY <2>1
  <2>3. r[e] = <<Delim>> \o r[f]
    BY <2>0, <2>2
  <2> QED
    BY <1>1, <1>5, <1>7, <2>3
<1> QED
  BY <1>6, <1>7

\* Texts without delimiters are texts.
LEMMA PlainIsText ==
    /\ \A x \in Plain : x \in Texts
    /\ \A y \in Seq(Plain) : y \in Seq(Texts)
<1>1. \A x \in Plain : x \in Texts
  BY DEF Plain, Texts
<1>2. ASSUME NEW y \in Seq(Plain) PROVE y \in Seq(Texts)
  <2>1. Plain \subseteq Texts
    BY <1>1
  <2> QED
    BY <2>1, SeqMonotonic
<1> QED
  BY <1>1, <1>2

\* Joining one part, and one part before others.
LEMMA JoinedOne ==
    ASSUME NEW x \in Texts
    PROVE  Joined(<<x>>) = x
<1>1. <<x>> \in Seq(Texts) /\ <<x>> # <<>> /\ Len(<<x>>) = 1 /\ <<x>>[1] = x
  OBVIOUS
<1>2. PICK r : r = JoinAt(<<x>>, r) /\ Joined(<<x>>) = r[1]
  BY <1>1, JoinedIs
<1>3. r[1] = JoinAt(<<x>>, r)[1] /\ 1 \in 1..Len(<<x>>)
  BY <1>1, <1>2
<1> QED
  BY <1>1, <1>2, <1>3 DEF JoinAt

LEMMA JoinedMore ==
    ASSUME NEW x \in Texts, NEW y \in Seq(Texts), y # <<>>
    PROVE  Joined(<<x>> \o y) = x \o <<Delim>> \o Joined(y)
<1> DEFINE z == <<x>> \o y
           n == Len(y)
<1>1. n \in Nat \ {0}
  BY EmptySeq
<1>2. <<x>> \in Seq(Texts) /\ Len(<<x>>) = 1 /\ <<x>>[1] = x
  OBVIOUS
<1>3. z \in Seq(Texts) /\ Len(z) = n + 1 /\ z[1] = x /\ \A i \in 1..n : z[i + 1] = y[i]
  <2>1. /\ z \in Seq(Texts) /\ Len(z) = Len(<<x>>) + Len(y)
        /\ \A i \in 1..Len(<<x>>) + Len(y) :
              z[i] = IF i <= Len(<<x>>) THEN <<x>>[i] ELSE y[i - Len(<<x>>)]
    BY <1>2, ConcatProperties
  <2> HIDE DEF z
  <2>2. Len(z) = n + 1 /\ z[1] = x
    BY <1>1, <1>2, <2>1
  <2>3. ASSUME NEW i \in 1..n PROVE z[i + 1] = y[i]
    <3>1. i + 1 \in 1..1 + n /\ ~(i + 1 <= 1) /\ i + 1 - 1 = i
      BY <1>1
    <3> HIDE DEF n
    <3> QED
      BY <1>2, <2>1, <3>1 DEF n
  <2> QED
    BY <2>1, <2>2, <2>3
<1> HIDE DEF z
<1>4. z # <<>>
  BY <1>1, <1>3, EmptySeq
<1>5. PICK r : r = JoinAt(z, r) /\ Joined(z) = r[1]
  BY <1>3, <1>4, JoinedIs
<1>6. PICK q : q = JoinAt(y, q) /\ (\A r2 : r2 = JoinAt(y, r2) => r2 = q) /\ Joined(y) = q[1]
  BY JoinedIs
<1> DEFINE t == [i \in 1..n |-> r[i + 1]]
<1>7. \A i \in 1..n + 1 : r[i] = IF i = n + 1 THEN z[i] ELSE z[i] \o <<Delim>> \o r[i + 1]
  <2>1. r = [i \in 1..n + 1 |-> IF i = n + 1 THEN z[i] ELSE z[i] \o <<Delim>> \o r[i + 1]]
    BY <1>3, <1>5 DEF JoinAt
  <2> HIDE DEF n
  <2> QED
    BY <2>1, Zenon
<1>8. ASSUME NEW i \in 1..n
      PROVE  r[i + 1] = IF i = n THEN y[i] ELSE y[i] \o <<Delim>> \o t[i + 1]
  <2>1. i + 1 \in 1..n + 1 /\ (i + 1 = n + 1 <=> i = n) /\ (i # n => i + 1 \in 1..n)
    BY <1>1
  <2>2. r[i + 1] = IF i + 1 = n + 1 THEN z[i + 1] ELSE z[i + 1] \o <<Delim>> \o r[i + 1 + 1]
    BY <1>7, <2>1
  <2>3. i # n => t[i + 1] = r[i + 1 + 1]
    BY <2>1
  <2> HIDE DEF n, t
  <2> QED
    BY <1>3, <2>1, <2>2, <2>3
<1>9. t = JoinAt(y, t)
  <2>1. t = [i \in 1..n |-> IF i = n THEN y[i] ELSE y[i] \o <<Delim>> \o t[i + 1]]
    BY <1>8
  <2> QED
    BY <2>1 DEF JoinAt
<1>10. r[2] = Joined(y)
  <2>1. t = q
    BY <1>6, <1>9
  <2>2. t[1] = r[2]
    BY <1>1
  <2> HIDE DEF t
  <2> QED
    BY <1>6, <2>1, <2>2
<1>11. r[1] = x \o <<Delim>> \o r[2]
  <2>1. 1 \in 1..n + 1 /\ 1 # n + 1 /\ 1 + 1 = 2
    BY <1>1
  <2>2. r[1] = z[1] \o <<Delim>> \o r[1 + 1]
    BY <1>7, <2>1
  <2> QED
    BY <1>3, <2>1, <2>2
<1> QED
  BY <1>5, <1>10, <1>11 DEF z

\* What split() makes of a text from p on: a piece, and what follows it.
LEMMA SplitPiece ==
    ASSUME NEW s \in Texts, NEW r, Splits(s, r),
           NEW p \in 1..Npos(s), NEW e, NEW f, Piece(s, p, e, f)
    PROVE  r[p] = <<Between(s, p, e)>>
                     \o (IF f # Npos(s) THEN r[f] ELSE IF e # Npos(s) THEN <<<<>>>> ELSE <<>>)
<1>1. r[p] = SplitAt(s, r)[p]
  BY DEF Splits
<1>2. e = FindFirstOf(s, {Delim}, p) /\ f = FindFirstNotOf(s, {Delim}, e)
  BY DEF Piece
<1>3. SplitAt(s, r)[p] = <<Between(s, p, e)>>
        \o (IF f # Npos(s) THEN r[f] ELSE IF e # Npos(s) THEN <<<<>>>> ELSE <<>>)
  BY <1>2, Zenon DEF SplitAt
<1> QED
  BY <1>1, <1>3

\* split() and Joined give the text back, but for repeated delimiters.
LEMMA SplitJoins ==
    ASSUME NEW s \in Texts
    PROVE  Joined(Split(s, {Delim})) = Collapsed(s)
<1> DEFINE N == Npos(s)
<1>1. PICK c : Collapses(s, c) /\ Collapsed(s) = c[1]
  BY CollapsedIs
<1>2. PICK r : Splits(s, r) /\ Split(s, {Delim}) = r[1]
  BY SplitIs
<1>3. N \in Nat /\ 1 \in 1..N
  BY BytesOf
<1>6. ASSUME NEW p \in 1..N, NEW e, NEW f, Piece(s, p, e, f)
      PROVE  r[p] = <<Between(s, p, e)>>
                       \o (IF f # N THEN r[f] ELSE IF e # N THEN <<<<>>>> ELSE <<>>)
  <2>1. Splits(s, r)
    BY <1>2
  <2> QED
    BY <1>6, <2>1, SplitPiece
<1>7. ASSUME NEW p \in 1..N, NEW e, NEW f, Piece(s, p, e, f)
      PROVE  c[p] = Between(s, p, e) \o (IF e = N THEN <<>> ELSE <<Delim>> \o c[f])
  <2>1. Collapses(s, c)
    BY <1>1
  <2> QED
    BY <1>7, <2>1, CollapsedPiece
<1>8. c \in [1..N -> Texts] /\ r \in [1..N -> Seq(Plain)]
  BY <1>1, <1>2 DEF Collapses, Splits
<1> HIDE DEF N
<1> DEFINE S == {p \in 1..N : r[p] = <<>> \/ Joined(r[p]) # c[p]}
<1>4. ASSUME S # {} PROVE FALSE
  <2>1. PICK p \in S : \A j \in S : j <= p
    <3>1. S \subseteq 1..N
      OBVIOUS
    <3> HIDE DEF S
    <3> QED
      BY <1>3, <1>4, <3>1, HasGreatest
  <2>2. p \in 1..N /\ (r[p] = <<>> \/ Joined(r[p]) # c[p])
    OBVIOUS
  <2>3. PICK e, f : Piece(s, p, e, f)
    BY <2>2, HasPiece DEF N
  <2> DEFINE b == Between(s, p, e)
  <2>4. e \in p..N /\ f \in e..N /\ (e # N => e < f)
    BY <2>3 DEF Piece, N
  <2>5. b \in Texts
    BY <2>2, <2>3, PlainPiece, PlainIsText DEF N
  <2>6. r[p] = <<b>> \o (IF f # N THEN r[f] ELSE IF e # N THEN <<<<>>>> ELSE <<>>)
    BY <1>6, <2>2, <2>3
  <2>7. c[p] = b \o (IF e = N THEN <<>> ELSE <<Delim>> \o c[f])
    BY <1>7, <2>2, <2>3
  <2> HIDE DEF b
  <2>8. r[p] # <<>>
    <3>1. <<b>> \in Seq(Texts) /\ \A y \in Seq(Texts) : <<b>> \o y # <<>>
      BY <2>5
    <3>2. <<<<>>>> \in Seq(Texts) /\ <<>> \in Seq(Texts)
      BY Concats, <2>5
    <3>3. r[f] \in Seq(Texts)
      <4>1. f \in 1..N
        BY <1>3, <2>2, <2>4
      <4> QED
        BY <1>8, <4>1, PlainIsText
    <3> QED
      BY <2>6, <3>1, <3>2, <3>3
  <2>9. CASE f # N
    <3>1. e # N /\ f \in 1..N /\ ~(f <= p)
      BY <1>3, <2>2, <2>4, <2>9
    <3>2. r[f] # <<>> /\ Joined(r[f]) = c[f]
      BY <2>1, <3>1
    <3>3. r[f] \in Seq(Texts) /\ c[f] \in Texts
      BY <1>8, <3>1, PlainIsText
    <3>4. r[p] = <<b>> \o r[f] /\ c[p] = b \o (<<Delim>> \o c[f])
      BY <2>6, <2>7, <2>9, <3>1
    <3>5. Joined(r[p]) = b \o <<Delim>> \o c[f]
      BY <2>5, <3>2, <3>3, <3>4, JoinedMore
    <3>6. b \o (<<Delim>> \o c[f]) = b \o <<Delim>> \o c[f]
      <4>1. <<Delim>> \in Texts
        BY <2>5, Concats
      <4> QED
        BY <2>5, <3>3, <4>1, Regroup, Zenon
    <3> QED
      BY <2>2, <2>8, <3>4, <3>5, <3>6
  <2>10. CASE f = N /\ e # N
    <3>1. r[p] = <<b>> \o <<<<>>>> /\ c[p] = b \o (<<Delim>> \o c[N])
      BY <2>6, <2>7, <2>10
    <3>2. c[N] = <<>>
      <4>1. c[N] = CollapseAt(s, c)[N]
        BY <1>1, Zenon DEF Collapses
      <4>2. N \in 1..N
        BY <1>3
      <4> QED
        BY <4>1, <4>2, Zenon DEF CollapseAt, N
    <3>3. <<>> \in Texts /\ <<<<>>>> \in Seq(Texts) /\ <<<<>>>> # <<>>
      BY <2>5, Concats
    <3>4. Joined(<<<<>>>>) = <<>>
      BY <3>3, JoinedOne
    <3>5. Joined(r[p]) = b \o <<Delim>> \o <<>>
      BY <2>5, <3>1, <3>3, <3>4, JoinedMore
    <3>6. b \o (<<Delim>> \o <<>>) = b \o <<Delim>> \o <<>>
      BY <2>5, <3>3, Concats, Regroup
    <3> QED
      BY <2>2, <2>8, <3>1, <3>2, <3>5, <3>6
  <2>11. CASE e = N
    <3>1. f = N
      BY <1>3, <2>4, <2>11
    <3>2. r[p] = <<b>> \o <<>> /\ c[p] = b \o <<>>
      BY <2>6, <2>7, <2>11, <3>1
    <3>3. r[p] = <<b>> /\ c[p] = b
      BY <2>5, <3>2
    <3> QED
      BY <2>2, <2>5, <2>8, <3>3, JoinedOne
  <2> QED
    BY <2>9, <2>10, <2>11
<1>5. 1 \notin S
  <2> HIDE DEF S
  <2> QED
    BY <1>4
<1> QED
  BY <1>1, <1>2, <1>3, <1>5

----------------------------------------------------------------------------
(***************************************************************************)
(* Replacing.                                                              *)
(***************************************************************************)

\* A text of one byte is found where its byte is.
LEMMA FindIsFirst ==
    ASSUME NEW s \in Texts, NEW p \in 1..Npos(s)
    PROVE  Find(s, <<Delim>>, p) = FindFirstOf(s, {Delim}, p)
<1> DEFINE n == Len(s)
<1>1. n \in Nat /\ Npos(s) = n + 1 /\ n + 1 - Len(<<Delim>>) = n
  BY BytesOf
<1>2. ASSUME NEW i \in p..n
      PROVE  SubSeq(s, i, i + Len(<<Delim>>) - 1) = <<Delim>> <=> s[i] \in {Delim}
  <2>1. i \in 1..n /\ i + Len(<<Delim>>) - 1 = i
    BY <1>1
  <2>2. SubSeq(s, i, i) = <<s[i]>> \o SubSeq(s, i + 1, i)
    BY <2>1, SubSeqRecursiveFirst DEF Texts
  <2>3. SubSeq(s, i + 1, i) = <<>>
    BY <2>1, SubSeqEmpty
  <2>4. <<s[i]>> \o <<>> = <<s[i]>>
    <3>1. <<s[i]>> \in Texts
      BY <2>1, BytesOf DEF Texts
    <3> QED
      BY <3>1, Concats
  <2>5. SubSeq(s, i, i + Len(<<Delim>>) - 1) = <<s[i]>>
    BY <2>1, <2>2, <2>3, <2>4
  <2>6. <<s[i]>> = <<Delim>> <=> s[i] = Delim
    OBVIOUS
  <2> QED
    BY <2>5, <2>6
<1>3. {i \in p..n + 1 - Len(<<Delim>>) : SubSeq(s, i, i + Len(<<Delim>>) - 1) = <<Delim>>}
        = {i \in p..n : s[i] \in {Delim}}
  BY <1>1, <1>2
<1> QED
  BY <1>3 DEF Find, FindFirstOf

\* s with each delimiter replaced.
Replaced(s) == [i \in 1..Len(s) |-> IF s[i] = Delim THEN Other ELSE s[i]]

LEMMA ReplacedIs ==
    ASSUME NEW s \in Texts
    PROVE  /\ Replaced(s) \in Texts /\ Len(Replaced(s)) = Len(s)
           /\ \A i \in 1..Len(s) : Replaced(s)[i] = IF s[i] = Delim THEN Other ELSE s[i]
<1>1. Len(s) \in Nat /\ Other \in 0..255 /\ \A i \in 1..Len(s) : s[i] \in 0..255
  BY BytesOf, BytesAssumption
<1>2. Replaced(s) \in [1..Len(s) -> 0..255]
  BY <1>1 DEF Replaced
<1>3. \A n \in Nat : \A x \in [1..n -> 0..255] : x \in Seq(0..255) /\ Len(x) = n
  OBVIOUS
<1> QED
  BY <1>1, <1>2, <1>3 DEF Replaced, Texts

\* What replace() makes of a text from p on.
LEMMA ReplacedPiece ==
    ASSUME NEW s \in Texts, NEW p \in 1..Npos(s), NEW e, NEW f, Piece(s, p, e, f)
    PROVE  SubSeq(Replaced(s), p, Len(s)) =
             IF e = Npos(s) THEN SubSeq(s, p, Len(s))
             ELSE Between(s, p, e) \o <<Other>> \o SubSeq(Replaced(s), e + 1, Len(s))
<1> DEFINE m == Replaced(s)
           n == Len(s)
<1>1. n \in Nat /\ Npos(s) = n + 1
  BY BytesOf
<1>2. m \in Texts /\ Len(m) = n /\ \A i \in 1..n : m[i] = IF s[i] = Delim THEN Other ELSE s[i]
  BY ReplacedIs
<1> HIDE DEF m, n
<1>3. /\ e \in p..n + 1 /\ (\A j \in p..e - 1 : s[j] # Delim)
      /\ p \in 1..n + 1 /\ (e # n + 1 => s[e] = Delim)
  BY <1>1 DEF Piece
<1>4. Npos(m) = n + 1
  BY <1>2 DEF Npos
<1>5. Between(m, p, e) = Between(s, p, e) /\ Between(s, p, e) \in Texts
  <2>1. /\ Between(s, p, e) \in Texts /\ Len(Between(s, p, e)) = e - p
        /\ \A i \in 1..e - p : Between(s, p, e)[i] = s[p + i - 1]
    <3>1. p \in 1..Npos(s) /\ e \in p..Npos(s)
      BY <1>1, <1>3
    <3> QED
      BY <3>1, BetweenIs
  <2>2. /\ Between(m, p, e) \in Texts /\ Len(Between(m, p, e)) = e - p
        /\ \A i \in 1..e - p : Between(m, p, e)[i] = m[p + i - 1]
    <3>1. p \in 1..Npos(m) /\ e \in p..Npos(m)
      BY <1>3, <1>4
    <3> QED
      BY <1>2, <3>1, BetweenIs
  <2>3. ASSUME NEW i \in 1..e - p PROVE Between(m, p, e)[i] = Between(s, p, e)[i]
    <3>1. p + i - 1 \in p..e - 1 /\ p + i - 1 \in 1..n
      BY <1>1, <1>3
    <3>2. m[p + i - 1] = s[p + i - 1]
      BY <1>2, <1>3, <3>1
    <3> QED
      BY <2>1, <2>2, <3>2
  <2> QED
    BY <2>1, <2>2, <2>3, SeqEqual DEF Texts
<1>6. CASE e = n + 1
  <2>1. e - 1 = n
    BY <1>1, <1>6
  <2> QED
    BY <1>1, <1>5, <1>6, <2>1 DEF Between, m, n
<1>7. CASE e # n + 1
  <2>1. e \in 1..n /\ e - 1 \in p - 1..n /\ n \in e - 1..n /\ n \in e..n /\ e - 1 + 1 = e
    BY <1>1, <1>3, <1>7
  <2>2. SubSeq(m, e, n) = <<m[e]>> \o SubSeq(m, e + 1, n)
    BY <1>2, <2>1, SubSeqRecursiveFirst DEF Texts
  <2>3. m[e] = Other
    BY <1>2, <1>3, <1>7, <2>1
  <2>4. SubSeq(m, p, e - 1) \o SubSeq(m, e - 1 + 1, n) = SubSeq(m, p, n)
    BY <1>2, <1>3, <2>1, ConcatAdjacentSubSeq DEF Texts
  <2>5. SubSeq(m, p, n) = Between(s, p, e) \o (<<Other>> \o SubSeq(m, e + 1, n))
    BY <1>5, <2>1, <2>2, <2>3, <2>4 DEF Between
  <2>6. <<Other>> \in Texts
    BY BytesAssumption DEF Texts
  <2>7. SubSeq(m, e + 1, n) \in Texts
    <3>1. e + 1 \in Int /\ n \in Int /\ \A i \in e + 1..n : i \in 1..n
      BY <1>1, <2>1
    <3>2. \A i \in e + 1..n : m[i] \in 0..255
      BY <1>2, <3>1, BytesOf
    <3> QED
      BY <3>1, <3>2, SubSeqProperties DEF Texts
  <2>8. Between(s, p, e) \o (<<Other>> \o SubSeq(m, e + 1, n))
          = Between(s, p, e) \o <<Other>> \o SubSeq(m, e + 1, n)
    BY <1>5, <2>6, <2>7, Regroup, Zenon
  <2> QED
    BY <1>1, <1>7, <2>5, <2>8 DEF m, n
<1> QED
  BY <1>6, <1>7 DEF m, n

\* replace() changes each delimiter and no other byte.
LEMMA ReplaceIs ==
    ASSUME NEW s \in Texts
    PROVE  Replace(s, <<Delim>>, <<Other>>) = Replaced(s)
<1> DEFINE N == Npos(s)
           n == Len(s)
           m == Replaced(s)
           hit(p) == Find(s, <<Delim>>, p)
           head == [p \in 1..N |-> IF hit(p) = N THEN SubSeq(s, p, n)
                                   ELSE Between(s, p, hit(p)) \o <<Other>>]
           last == {p \in 1..N : hit(p) = N}
           next == [p \in 1..N |-> hit(p) + Len(<<Delim>>)]
           q == [p \in 1..N |-> SubSeq(m, p, n)]
<1>1. n \in Nat /\ N = n + 1 /\ N \in Nat /\ 1 \in 1..N /\ Len(<<Delim>>) = 1
  BY BytesOf
<1>2. ASSUME NEW p \in 1..N
      PROVE  /\ hit(p) \in p..N
             /\ q[p] = IF hit(p) = N THEN SubSeq(s, p, n)
                       ELSE Between(s, p, hit(p)) \o <<Other>> \o q[hit(p) + Len(<<Delim>>)]
  <2>1. PICK e, f : Piece(s, p, e, f)
    BY HasPiece
  <2>2. e = hit(p)
    BY <2>1, FindIsFirst DEF Piece
  <2>3. e \in p..N
    BY <2>1 DEF Piece
  <2>4. q[p] = SubSeq(m, p, n)
    OBVIOUS
  <2>5. e # N => q[e + Len(<<Delim>>)] = SubSeq(m, e + 1, n)
    BY <1>1, <2>3
  <2> HIDE DEF q
  <2>6. SubSeq(m, p, n) = IF e = N THEN SubSeq(s, p, n)
                          ELSE Between(s, p, e) \o <<Other>> \o SubSeq(m, e + 1, n)
    BY <2>1, ReplacedPiece
  <2> HIDE DEF hit, m, n, N
  <2> QED
    BY <2>2, <2>3, <2>4, <2>5, <2>6
<1>3. Leads(N, last, next)
  <2>1. ASSUME NEW p \in 1..N PROVE p \in last \/ next[p] \in p + 1..N
    <3>1. hit(p) \in p..N
      BY <1>2
    <3> HIDE DEF hit, N
    <3>2. hit(p) # N => hit(p) + 1 \in p + 1..N
      BY <1>1, <3>1
    <3> QED
      BY <1>1, <3>2
  <2> HIDE DEF last, next
  <2> QED
    BY <2>1 DEF Leads
<1>4. ASSUME NEW r PROVE Chain(N, head, last, next, r) = ReplaceAt(s, <<Delim>>, <<Other>>, r)
  <2>1. ASSUME NEW p \in 1..N
        PROVE  (IF p \in last THEN head[p] ELSE head[p] \o r[next[p]]) =
                 IF hit(p) = N THEN SubSeq(s, p, n)
                 ELSE Between(s, p, hit(p)) \o <<Other>> \o r[hit(p) + Len(<<Delim>>)]
    <3> HIDE DEF hit
    <3> QED
      OBVIOUS
  <2> HIDE DEF head, last, next
  <2> QED
    BY <2>1 DEF Chain, ReplaceAt
<1>5. q = ReplaceAt(s, <<Delim>>, <<Other>>, q)
  <2>1. q = [p \in 1..N |-> q[p]]
    OBVIOUS
  <2> HIDE DEF q
  <2> QED
    BY <1>2, <2>1 DEF ReplaceAt
<1>6. q[1] = m
  <2>1. m \in Texts /\ Len(m) = n
    BY ReplacedIs
  <2>2. SubSeq(m, 1, n) = m
    BY <2>1, SubSeqFull DEF Texts
  <2> QED
    BY <1>1, <2>2
<1> HIDE DEF head, last, next, q, m
<1>7. ASSUME NEW r2, r2 = ReplaceAt(s, <<Delim>>, <<Other>>, r2) PROVE r2 = q
  <2>1. q = Chain(N, head, last, next, q) /\ r2 = Chain(N, head, last, next, r2)
    BY <1>4, <1>5, <1>7
  <2> QED
    BY <1>1, <1>3, <2>1, ChainIsOne
<1>8. Replace(s, <<Delim>>, <<Other>>) = q[1]
  BY <1>5, <1>7, ReplaceTakes
<1> QED
  BY <1>6, <1>8 DEF m

\* x without a delimiter at its end.
Trimmed(x) == IF x # <<>> /\ x[Len(x)] = Delim THEN SubSeq(x, 1, Len(x) - 1) ELSE x

\* The end of two texts is the end of the second.
LEMMA TrimmedMore ==
    ASSUME NEW x \in Texts, NEW y \in Texts, y # <<>>
    PROVE  Trimmed(x \o y) = x \o Trimmed(y) /\ x \o y # <<>>
<1> DEFINE z == x \o y
           k == Len(x)
           n == Len(y)
<1>1. k \in Nat /\ n \in Nat \ {0}
  BY EmptySeq DEF Texts
<1>2. z \in Texts /\ Len(z) = k + n /\ \A i \in 1..k + n : z[i] = IF i <= k THEN x[i] ELSE y[i - k]
  BY ConcatProperties DEF Texts
<1> HIDE DEF z, k, n
<1>3. z # <<>> /\ z[k + n] = y[n]
  <2>1. k + n \in 1..k + n /\ ~(k + n <= k) /\ k + n - k = n /\ k + n # 0
    BY <1>1
  <2>2. z[k + n] = y[n]
    <3>1. z[k + n] = y[(k + n) - k]
      BY <1>1, <1>2, <2>1
    <3> QED
      BY <1>1, <2>1, <3>1
  <2>3. z # <<>>
    BY <1>2, <2>1
  <2> QED
    BY <2>2, <2>3
<1>4. CASE y[n] # Delim
  BY <1>2, <1>3, <1>4 DEF Trimmed, z, n
<1>5. CASE y[n] = Delim
  <2> DEFINE u == SubSeq(z, 1, k + n - 1)
             v == SubSeq(y, 1, n - 1)
  <2>1. /\ u \in Seq(0..255) /\ Len(u) = k + n - 1
        /\ \A i \in 1..k + n - 1 : u[i] = z[i]
    <3>1. /\ 1 \in Int /\ k + n - 1 \in Int /\ (1 <= k + n - 1 \/ k + n - 1 = 0) /\ k + n - 1 - 1 + 1 = k + n - 1
          /\ \A i \in 1..k + n - 1 : i \in 1..Len(z) /\ 1 + i - 1 = i
      BY <1>1, <1>2
    <3>2. \A i \in 1..k + n - 1 : z[i] \in 0..255
      BY <1>2, <3>1, BytesOf
    <3>3. /\ u \in Seq(0..255) /\ Len(u) = IF 1 <= k + n - 1 THEN k + n - 1 - 1 + 1 ELSE 0
          /\ \A i \in 1..k + n - 1 - 1 + 1 : u[i] = z[1 + i - 1]
      BY <3>1, <3>2, SubSeqProperties
    <3> HIDE DEF u
    <3> QED
      BY <3>1, <3>3
  <2>2. /\ v \in Texts /\ Len(v) = n - 1
        /\ \A i \in 1..n - 1 : v[i] = y[i]
    <3>1. /\ 1 \in Int /\ n - 1 \in Int /\ (1 <= n - 1 \/ n - 1 = 0) /\ n - 1 - 1 + 1 = n - 1
          /\ \A i \in 1..n - 1 : i \in 1..n /\ 1 + i - 1 = i
      BY <1>1
    <3>2. \A i \in 1..n - 1 : y[i] \in 0..255
      BY <3>1, BytesOf DEF n
    <3>3. /\ v \in Seq(0..255) /\ Len(v) = IF 1 <= n - 1 THEN n - 1 - 1 + 1 ELSE 0
          /\ \A i \in 1..n - 1 - 1 + 1 : v[i] = y[1 + i - 1]
      BY <3>1, <3>2, SubSeqProperties
    <3> HIDE DEF v
    <3> QED
      BY <3>1, <3>3 DEF Texts
  <2> HIDE DEF u, v
  <2>3. /\ x \o v \in Texts /\ Len(x \o v) = k + (n - 1)
        /\ \A i \in 1..k + (n - 1) : (x \o v)[i] = IF i <= k THEN x[i] ELSE v[i - k]
    BY <2>2, ConcatProperties DEF Texts, k
  <2>4. ASSUME NEW i \in 1..k + n - 1 PROVE u[i] = (x \o v)[i]
    <3>1. /\ i \in 1..k + n /\ i \in 1..k + (n - 1)
          /\ ~(i <= k) => i - k \in 1..n - 1
      BY <1>1
    <3> QED
      BY <1>2, <2>1, <2>2, <2>3, <3>1
  <2>5. u = x \o v
    <3>1. Len(u) = Len(x \o v) /\ x \o v \in Seq(0..255)
      BY <1>1, <2>1, <2>3 DEF Texts
    <3>2. \A i \in 1..Len(u) : u[i] = (x \o v)[i]
      BY <2>1, <2>4
    <3> DEFINE w == x \o v
    <3> HIDE DEF w
    <3> QED
      BY <2>1, <3>1, <3>2, SeqEqual DEF w
  <2>6. Trimmed(z) = u
    <3>1. Len(z) - 1 = k + n - 1 /\ z[Len(z)] = Delim
      BY <1>1, <1>2, <1>3, <1>5
    <3> QED
      BY <1>3, <3>1, Zenon DEF Trimmed, u
  <2>7. Trimmed(y) = v
    BY <1>5 DEF Trimmed, v, n
  <2> QED
    BY <1>3, <2>5, <2>6, <2>7 DEF z
<1> QED
  BY <1>4, <1>5

\* What is taken from a piece: nothing but a delimiter behind it.
LEMMA TrimmedPlain ==
    ASSUME NEW x \in Plain
    PROVE  Trimmed(x) = x /\ Trimmed(x \o <<Delim>>) = x
<1>1. x \in Texts /\ <<Delim>> \in Texts /\ <<Delim>> # <<>>
  BY PlainIsText, Concats
<1>2. Trimmed(x) = x
  <2>1. x # <<>> => Len(x) \in 1..Len(x)
    BY <1>1, EmptySeq DEF Texts
  <2>2. x # <<>> => x[Len(x)] # Delim
    BY <2>1, ElementOfSeq DEF Plain
  <2> QED
    BY <2>2 DEF Trimmed
<1>3. Trimmed(<<Delim>>) = <<>>
  <2>1. Len(<<Delim>>) = 1 /\ <<Delim>>[1] = Delim /\ SubSeq(<<Delim>>, 1, 0) = <<>>
    BY SubSeqEmpty
  <2> QED
    BY <1>1, <2>1 DEF Trimmed
<1>4. Trimmed(x \o <<Delim>>) = x \o <<>>
  BY <1>1, <1>3, TrimmedMore
<1> QED
  BY <1>1, <1>2, <1>4, Concats

\* What replace_any() makes of a text from p on, c being its collapsed rest.
LEMMA TrimmedPiece ==
    ASSUME NEW s \in Texts, NEW c, Collapses(s, c),
           NEW p \in 1..Npos(s), NEW e, NEW f, Piece(s, p, e, f)
    PROVE  Trimmed(c[p]) =
             IF f = Npos(s) THEN Between(s, p, e)
             ELSE Between(s, p, e) \o <<Delim>> \o Trimmed(c[f])
<1> DEFINE n == Len(s)
           b == Between(s, p, e)
<1>1. n \in Nat /\ Npos(s) = n + 1
  BY BytesOf
<1>2. /\ e \in p..n + 1 /\ f \in e..n + 1
      /\ e # n + 1 => e < f
      /\ f # n + 1 => s[f] # Delim
  BY <1>1 DEF Piece
<1>3. c[p] = b \o (IF e = n + 1 THEN <<>> ELSE <<Delim>> \o c[f])
  BY <1>1, CollapsedPiece
<1>4. b \in Plain /\ b \in Texts /\ <<Delim>> \in Texts
  BY PlainPiece, PlainIsText, Concats
<1>5. /\ c[n + 1] = <<>>
      /\ f \in 1..n /\ s[f] # Delim => c[f] = <<s[f]>> \o c[f + 1]
      /\ \A i \in 1..n + 1 : c[i] \in Texts
  BY CollapsedStep
<1> HIDE DEF n, b
<1>6. CASE e = n + 1
  <2>1. f = n + 1
    BY <1>1, <1>2, <1>6
  <2>2. c[p] = b
    BY <1>3, <1>4, <1>6, Concats
  <2> QED
    BY <1>1, <1>4, <2>1, <2>2, TrimmedPlain DEF b
<1>7. CASE f = n + 1 /\ e # n + 1
  <2>1. c[p] = b \o (<<Delim>> \o <<>>)
    BY <1>3, <1>5, <1>7
  <2>2. <<Delim>> \o <<>> = <<Delim>>
    BY <1>4, Concats
  <2> QED
    BY <1>1, <1>4, <1>7, <2>1, <2>2, TrimmedPlain DEF b
<1>8. CASE f # n + 1
  <2>1. e # n + 1 /\ f \in 1..n /\ f \in 1..n + 1 /\ f + 1 \in 1..n + 1
    BY <1>1, <1>2, <1>8
  <2>2. c[f] \in Texts /\ c[f] # <<>>
    <3>1. c[f] = <<s[f]>> \o c[f + 1] /\ c[f] \in Texts /\ c[f + 1] \in Texts
      BY <1>2, <1>5, <1>8, <2>1
    <3>2. <<s[f]>> \in Texts /\ <<s[f]>> # <<>>
      BY <2>1, BytesOf DEF Texts, n
    <3>3. <<s[f]>> \o c[f + 1] # <<>>
      BY <3>1, <3>2, ConcatEqualIffEmpty DEF Texts
    <3> QED
      BY <3>1, <3>3
  <2>3. c[p] = b \o (<<Delim>> \o c[f])
    BY <1>3, <2>1
  <2>4. b \o (<<Delim>> \o c[f]) = (b \o <<Delim>>) \o c[f] /\ b \o <<Delim>> \in Texts
    <3>1. b \o (<<Delim>> \o c[f]) = (b \o <<Delim>>) \o c[f]
      BY <1>4, <2>2, Regroup, Zenon
    <3> QED
      BY <1>4, <3>1, Concats
  <2>5. Trimmed((b \o <<Delim>>) \o c[f]) = (b \o <<Delim>>) \o Trimmed(c[f])
    BY <2>2, <2>4, TrimmedMore
  <2> QED
    BY <1>1, <1>8, <2>3, <2>4, <2>5 DEF b
<1> QED
  BY <1>6, <1>7, <1>8

\* replace_any() is the collapsed text from its first byte that is no delimiter.
LEMMA ReplaceAnyFrom ==
    ASSUME NEW s \in Texts, NEW c, Collapses(s, c)
    PROVE  ReplaceAny(s, {Delim}, <<Delim>>) =
             IF FindFirstNotOf(s, {Delim}, 1) = Npos(s) THEN Throws
             ELSE Trimmed(c[FindFirstNotOf(s, {Delim}, 1)])
<1> DEFINE N == Npos(s)
           to(p) == FindFirstOf(s, {Delim}, p)
           from(p) == FindFirstNotOf(s, {Delim}, to(p))
           head == [p \in 1..N |-> IF from(p) = N THEN Between(s, p, to(p))
                                   ELSE Between(s, p, to(p)) \o <<Delim>>]
           last == {p \in 1..N : from(p) = N}
           next == [p \in 1..N |-> from(p)]
           q == [p \in 1..N |-> Trimmed(c[p])]
<1>1. N \in Nat /\ N = Len(s) + 1 /\ Len(s) \in Nat /\ 1 \in 1..N
  BY BytesOf
<1>2. ASSUME NEW p \in 1..N
      PROVE  /\ from(p) = N \/ from(p) \in p + 1..N
             /\ q[p] = IF from(p) = N THEN Between(s, p, to(p))
                       ELSE Between(s, p, to(p)) \o <<Delim>> \o q[from(p)]
  <2>1. PICK e, f : Piece(s, p, e, f)
    BY HasPiece
  <2>2. e = to(p) /\ f = from(p)
    BY <2>1 DEF Piece
  <2>3. f = N \/ f \in p + 1..N
    BY <1>1, <2>1 DEF Piece
  <2>4. q[p] = Trimmed(c[p])
    OBVIOUS
  <2>5. f # N => q[f] = Trimmed(c[f])
    BY <1>1, <2>3
  <2> HIDE DEF q
  <2>6. Trimmed(c[p]) = IF f = N THEN Between(s, p, e)
                        ELSE Between(s, p, e) \o <<Delim>> \o Trimmed(c[f])
    BY <2>1, TrimmedPiece
  <2> HIDE DEF to, from, N
  <2> QED
    BY <2>2, <2>3, <2>4, <2>5, <2>6
<1>3. Leads(N, last, next)
  <2>1. ASSUME NEW p \in 1..N PROVE p \in last \/ next[p] \in p + 1..N
    <3> HIDE DEF from
    <3> QED
      BY <1>2
  <2> HIDE DEF last, next
  <2> QED
    BY <2>1 DEF Leads
<1>4. ASSUME NEW r PROVE Chain(N, head, last, next, r) = ReplaceAnyAt(s, {Delim}, <<Delim>>, r)
  <2>1. ASSUME NEW p \in 1..N
        PROVE  (IF p \in last THEN head[p] ELSE head[p] \o r[next[p]]) =
                 IF from(p) = N THEN Between(s, p, to(p))
                 ELSE Between(s, p, to(p)) \o <<Delim>> \o r[from(p)]
    <3> HIDE DEF to, from
    <3> QED
      OBVIOUS
  <2> HIDE DEF head, last, next
  <2> QED
    BY <2>1 DEF Chain, ReplaceAnyAt
<1>5. q = ReplaceAnyAt(s, {Delim}, <<Delim>>, q)
  <2>1. q = [p \in 1..N |-> q[p]]
    OBVIOUS
  <2> HIDE DEF q
  <2> QED
    BY <1>2, <2>1 DEF ReplaceAnyAt
<1> DEFINE first == FindFirstNotOf(s, {Delim}, 1)
<1>6. q[first] = Trimmed(c[first])
  <2>1. first \in 1..N
    <3>1. first \in 1..Len(s) + 1
      <4>1. 1 \in 1..Len(s) + 1
        BY <1>1
      <4> QED
        BY <1>1, <4>1, FirstNotOfIs
    <3> QED
      BY <1>1, <3>1
  <2> HIDE DEF first
  <2> QED
    BY <2>1
<1> HIDE DEF head, last, next, q
<1>7. ASSUME NEW r2, r2 = ReplaceAnyAt(s, {Delim}, <<Delim>>, r2) PROVE r2 = q
  <2>1. q = Chain(N, head, last, next, q) /\ r2 = Chain(N, head, last, next, r2)
    BY <1>4, <1>5, <1>7
  <2> QED
    BY <1>1, <1>3, <2>1, ChainIsOne
<1>8. ReplaceAny(s, {Delim}, <<Delim>>) = IF first = N THEN Throws ELSE q[first]
  BY <1>5, <1>7, ReplaceAnyTakes
<1> QED
  BY <1>6, <1>8

\* A delimiter in front makes no difference to a stripped text.
LEMMA TrimmedIs ==
    ASSUME NEW x \in Texts, x # <<>>
    PROVE  /\ x[1] # Delim => Stripped(x) = Trimmed(x)
           /\ Stripped(<<Delim>> \o x) = Trimmed(x)
<1> DEFINE k == Len(x)
           z == <<Delim>> \o x
           m == IF x[k] = Delim THEN k - 1 ELSE k
<1>1. k \in Nat \ {0} /\ 1 \in 1..k /\ k \in 1..k
  BY EmptySeq DEF Texts
<1>2. <<Delim>> \in Texts /\ Len(<<Delim>>) = 1 /\ <<Delim>>[1] = Delim
  BY Concats
<1>3. z \in Texts /\ Len(z) = k + 1 /\ z[1] = Delim /\ \A i \in 1..k : z[i + 1] = x[i]
  <2>1. /\ z \in Seq(0..255) /\ Len(z) = 1 + k
        /\ \A i \in 1..1 + k : z[i] = IF i <= 1 THEN <<Delim>>[i] ELSE x[i - 1]
    BY <1>2, ConcatProperties DEF Texts
  <2> HIDE DEF z, k
  <2>2. z[1] = Delim
    BY <1>1, <1>2, <2>1
  <2>3. ASSUME NEW i \in 1..k PROVE z[i + 1] = x[i]
    <3>1. i + 1 \in 1..1 + k /\ ~(i + 1 <= 1) /\ (i + 1) - 1 = i
      BY <1>1
    <3>2. z[i + 1] = x[(i + 1) - 1]
      BY <2>1, <3>1
    <3> QED
      BY <3>1, <3>2
  <2> QED
    BY <1>1, <2>1, <2>2, <2>3 DEF Texts
<1> HIDE DEF k, z
<1>4. m \in 0..k /\ Trimmed(x) = SubSeq(x, 1, m)
  <2>1. SubSeq(x, 1, k) = x
    BY SubSeqFull DEF Texts, k
  <2> QED
    BY <1>1, <2>1 DEF Trimmed, k
<1>5. ASSUME x[1] # Delim PROVE Stripped(x) = Trimmed(x)
  BY <1>1, <1>4, <1>5 DEF Stripped, k
<1>6. Stripped(z) = Trimmed(x)
  <2>1. z # <<>> /\ z[Len(z)] = x[k]
    <3>1. Len(z) # 0 /\ Len(<<>>) = 0
      BY <1>1, <1>3
    <3>2. z[k + 1] = x[k]
      BY <1>1, <1>3
    <3> QED
      BY <1>3, <3>1, <3>2
  <2>2. (IF z[Len(z)] = Delim THEN Len(z) - 1 ELSE Len(z)) = m + 1
    BY <1>1, <1>3, <2>1
  <2> HIDE DEF m
  <2>3. Stripped(z) = SubSeq(z, 2, m + 1)
    BY <1>3, <2>1, <2>2 DEF Stripped
  <2>4. \A i \in 1..m : i \in 1..k
    BY <1>1, <1>4
  <2>5. /\ SubSeq(x, 1, m) \in Seq(0..255) /\ Len(SubSeq(x, 1, m)) = m
        /\ \A i \in 1..m : SubSeq(x, 1, m)[i] = x[i]
    <3>1. 1 \in Int /\ m \in Int /\ (1 <= m \/ m = 0) /\ m - 1 + 1 = m /\ \A i \in 1..m : 1 + i - 1 = i
      BY <1>4
    <3>2. \A i \in 1..m : x[i] \in 0..255
      BY <2>4, BytesOf DEF k
    <3>3. /\ SubSeq(x, 1, m) \in Seq(0..255)
          /\ Len(SubSeq(x, 1, m)) = IF 1 <= m THEN m - 1 + 1 ELSE 0
          /\ \A i \in 1..m - 1 + 1 : SubSeq(x, 1, m)[i] = x[1 + i - 1]
      BY <3>1, <3>2, SubSeqProperties
    <3> QED
      BY <3>1, <3>3
  <2>6. /\ SubSeq(z, 2, m + 1) \in Seq(0..255) /\ Len(SubSeq(z, 2, m + 1)) = m
        /\ \A i \in 1..m : SubSeq(z, 2, m + 1)[i] = z[i + 1]
    <3>1. /\ 2 \in Int /\ m + 1 \in Int /\ (2 <= m + 1 \/ m = 0) /\ (m + 1) - 2 + 1 = m
          /\ \A i \in 1..m : 2 + i - 1 = i + 1
          /\ (2 <= m + 1 <=> m # 0)
          /\ \A i \in 2..m + 1 : i \in 1..k + 1
      BY <1>1, <1>4
    <3>2. \A i \in 2..m + 1 : z[i] \in 0..255
      BY <1>3, <3>1, BytesOf
    <3>3. /\ SubSeq(z, 2, m + 1) \in Seq(0..255)
          /\ Len(SubSeq(z, 2, m + 1)) = IF 2 <= m + 1 THEN (m + 1) - 2 + 1 ELSE 0
          /\ \A i \in 1..(m + 1) - 2 + 1 : SubSeq(z, 2, m + 1)[i] = z[2 + i - 1]
      BY <3>1, <3>2, SubSeqProperties
    <3> QED
      BY <3>1, <3>3
  <2>7. \A i \in 1..m : SubSeq(z, 2, m + 1)[i] = SubSeq(x, 1, m)[i]
    BY <1>3, <2>4, <2>5, <2>6
  <2>8. SubSeq(z, 2, m + 1) = SubSeq(x, 1, m)
    BY <2>5, <2>6, <2>7, SeqEqual
  <2> QED
    BY <1>4, <2>3, <2>8 DEF m
<1> QED
  BY <1>5, <1>6 DEF z

\* replace_any() is the collapsed text, stripped, if there is anything in it.
LEMMA ReplaceAnyIs ==
    ASSUME NEW s \in Texts
    PROVE  ReplaceAny(s, {Delim}, <<Delim>>) =
             IF \A i \in 1..Len(s) : s[i] = Delim THEN Throws ELSE Stripped(Collapsed(s))
<1> DEFINE n == Len(s)
           f == FindFirstNotOf(s, {Delim}, 1)
<1>1. n \in Nat /\ Npos(s) = n + 1 /\ 1 \in 1..n + 1
  BY BytesOf
<1>2. f \in 1..n + 1 /\ (\A j \in 1..f - 1 : s[j] \in {Delim}) /\ (f = n + 1 \/ s[f] \notin {Delim})
  BY <1>1, FirstNotOfIs
<1>3. PICK c : Collapses(s, c) /\ Collapsed(s) = c[1]
  BY CollapsedIs
<1>4. ReplaceAny(s, {Delim}, <<Delim>>) = IF f = n + 1 THEN Throws ELSE Trimmed(c[f])
  <2>1. Collapses(s, c)
    BY <1>3
  <2> QED
    BY <1>1, <2>1, ReplaceAnyFrom
<1> HIDE DEF n, f
<1>5. f = n + 1 <=> \A i \in 1..n : s[i] = Delim
  <2>1. CASE f = n + 1
    <3>1. f - 1 = n
      BY <1>1, <2>1
    <3> QED
      BY <1>2, <2>1, <3>1
  <2>2. CASE f # n + 1
    <3>1. f \in 1..n
      BY <1>1, <1>2, <2>2
    <3> QED
      BY <1>2, <2>2, <3>1
  <2> QED
    BY <2>1, <2>2
<1>6. ASSUME f # n + 1 PROVE Trimmed(c[f]) = Stripped(c[1])
  <2>1. f \in 1..n /\ s[f] # Delim /\ f + 1 \in 1..n + 1 /\ f \in 1..n + 1
    BY <1>1, <1>2, <1>6
  <2>2. c[f] = <<s[f]>> \o c[f + 1] /\ c[f] \in Texts /\ c[f + 1] \in Texts
    <3>1. /\ f \in 1..n /\ s[f] # Delim => c[f] = <<s[f]>> \o c[f + 1]
          /\ \A i \in 1..n + 1 : c[i] \in Texts
      BY <1>3, CollapsedStep DEF n
    <3> QED
      BY <2>1, <3>1
  <2>3. c[f] # <<>> /\ c[f][1] = s[f]
    <3>1. <<s[f]>> \in Seq(0..255) /\ Len(<<s[f]>>) = 1 /\ <<s[f]>>[1] = s[f]
      BY <2>1, BytesOf DEF n
    <3>2. /\ Len(c[f]) = 1 + Len(c[f + 1])
          /\ \A i \in 1..1 + Len(c[f + 1]) : c[f][i] = IF i <= 1 THEN <<s[f]>>[i] ELSE c[f + 1][i - 1]
      BY <2>2, <3>1, ConcatProperties DEF Texts
    <3>3. Len(c[f + 1]) \in Nat
      BY <2>2 DEF Texts
    <3>4. 1 \in 1..1 + Len(c[f + 1]) /\ Len(c[f]) # 0
      BY <3>2, <3>3
    <3> QED
      BY <3>1, <3>2, <3>4
  <2>4. CASE f = 1
    BY <2>1, <2>2, <2>3, <2>4, TrimmedIs
  <2>5. CASE f # 1
    <3>1. PICK e, g : Piece(s, 1, e, g)
      BY <1>1, HasPiece
    <3>2. s[1] = Delim
      <4>1. 1 \in 1..f - 1
        BY <2>1, <2>5
      <4> QED
        BY <1>2, <4>1
    <3>3. e = 1
      <4>1. e \in 1..n + 1 /\ \A j \in 1..e - 1 : s[j] # Delim
        BY <1>1, <3>1 DEF Piece
      <4>2. e # 1 => 1 \in 1..e - 1
        BY <1>1, <4>1
      <4> QED
        BY <3>2, <4>1, <4>2
    <3>4. g = f
      BY <3>1, <3>3 DEF Piece, f
    <3>5. 1 # n + 1
      BY <1>1, <2>1
    <3>6. c[1] = Between(s, 1, 1) \o (IF 1 = Npos(s) THEN <<>> ELSE <<Delim>> \o c[f])
      <4>1. Collapses(s, c) /\ 1 \in 1..Npos(s) /\ Piece(s, 1, 1, f)
        BY <1>1, <1>3, <3>1, <3>3, <3>4
      <4> QED
        BY <4>1, CollapsedPiece
    <3>7. Between(s, 1, 1) = <<>>
      BY BetweenNone
    <3>8. <<Delim>> \o c[f] \in Texts
      BY <2>2, Concats
    <3>9. c[1] = <<Delim>> \o c[f]
      <4>1. c[1] = <<>> \o (<<Delim>> \o c[f])
        BY <1>1, <3>5, <3>6, <3>7
      <4> DEFINE w == <<Delim>> \o c[f]
      <4>2. w \in Texts /\ c[1] = <<>> \o w
        BY <3>8, <4>1
      <4> HIDE DEF w
      <4>3. c[1] = w
        BY <4>2, Concats
      <4> QED
        BY <4>3 DEF w
    <3> QED
      BY <2>2, <2>3, <3>9, TrimmedIs
  <2> QED
    BY <2>4, <2>5
<1> QED
  BY <1>3, <1>4, <1>5, <1>6 DEF n

----------------------------------------------------------------------------
(***************************************************************************)
(* Cutting a key in two.                                                   *)
(***************************************************************************)

\* Where the last delimiter is.
LEMMA LastOfIs ==
    ASSUME NEW s \in Texts
    PROVE  LET l == FindLastOf(s, {Delim}) IN
           /\ l = Npos(s) => \A i \in 1..Len(s) : s[i] # Delim
           /\ l # Npos(s) => l \in 1..Len(s) /\ s[l] = Delim
<1> DEFINE S == {i \in 1..Len(s) : s[i] \in {Delim}}
           l == FindLastOf(s, {Delim})
<1>1. Len(s) \in Nat /\ Npos(s) = Len(s) + 1
  BY BytesOf
<1>2. CASE S = {}
  <2>1. l = Npos(s)
    BY <1>2 DEF FindLastOf
  <2>2. \A i \in 1..Len(s) : s[i] # Delim
    BY <1>2
  <2> QED
    BY <2>1, <2>2
<1>3. CASE S # {}
  <2>1. l = CHOOSE i \in S : \A j \in S : i >= j
    BY <1>3 DEF FindLastOf
  <2>2. \E i \in S : \A j \in S : i >= j
    <3>1. S \subseteq 1..Len(s)
      OBVIOUS
    <3> HIDE DEF S
    <3>2. PICK m \in S : \A j \in S : j <= m
      BY <1>1, <1>3, <3>1, HasGreatest
    <3>3. \A j \in S : m >= j
      BY <1>1, <3>1, <3>2
    <3> QED
      BY <3>3
  <2> HIDE DEF S, l
  <2>3. l \in S
    BY <2>1, <2>2
  <2>4. l \in 1..Len(s) /\ s[l] = Delim
    BY <2>3 DEF S
  <2>5. l # Npos(s)
    BY <1>1, <2>4
  <2> QED
    BY <2>4, <2>5 DEF l
<1> QED
  BY <1>2, <1>3

\* A text around one of its bytes.
LEMMA Around ==
    ASSUME NEW s \in Texts, NEW l \in 1..Len(s)
    PROVE  /\ Between(s, 1, l) \o SubSeq(s, l, Len(s)) = s
           /\ Between(s, 1, l) \o <<s[l]>> \o SubSeq(s, l + 1, Len(s)) = s
<1> DEFINE n == Len(s)
<1>1. n \in Nat /\ Npos(s) = n + 1
  BY BytesOf
<1>2. /\ 1 \in 1..n + 1 /\ l - 1 \in 0..n /\ n \in l - 1..n /\ (l - 1) + 1 = l /\ n \in l..n
      /\ 1 \in 1..n /\ l \in 1..n /\ 1 - 1 = 0
  BY <1>1
<1>3. SubSeq(s, 1, l - 1) \o SubSeq(s, (l - 1) + 1, n) = SubSeq(s, 1, n)
  BY <1>2, ConcatAdjacentSubSeq DEF Texts
<1>4. SubSeq(s, 1, n) = s
  BY SubSeqFull DEF Texts
<1>5. SubSeq(s, l, n) = <<s[l]>> \o SubSeq(s, l + 1, n)
  BY <1>2, SubSeqRecursiveFirst DEF Texts
<1>7. Between(s, 1, l) \o SubSeq(s, l, n) = s
  BY <1>2, <1>3, <1>4 DEF Between
<1>8. Between(s, 1, l) \in Texts /\ <<s[l]>> \in Texts /\ SubSeq(s, l + 1, n) \in Texts
  <2>1. Between(s, 1, l) \in Texts
    <3>1. 1 \in 1..Npos(s) /\ l \in 1..Npos(s)
      BY <1>1, <1>2
    <3> QED
      BY <3>1, BetweenIs
  <2>2. <<s[l]>> \in Texts
    BY BytesOf DEF Texts
  <2>3. SubSeq(s, l + 1, n) \in Texts
    <3>1. l + 1 \in Int /\ n \in Int /\ \A i \in l + 1..n : i \in 1..n
      BY <1>1, <1>2
    <3>2. \A i \in l + 1..n : s[i] \in 0..255
      BY <3>1, BytesOf
    <3> QED
      BY <3>1, <3>2, SubSeqProperties DEF Texts
  <2> QED
    BY <2>1, <2>2, <2>3
<1> HIDE DEF n
<1>9. Between(s, 1, l) \o (<<s[l]>> \o SubSeq(s, l + 1, n)) =
         Between(s, 1, l) \o <<s[l]>> \o SubSeq(s, l + 1, n)
  BY <1>8, Regroup, Zenon
<1>10. Between(s, 1, l) \o <<s[l]>> \o SubSeq(s, l + 1, n) = s
  BY <1>5, <1>7, <1>9
<1> QED
  BY <1>7, <1>10 DEF n

\* And up to it.
LEMMA UpToByte ==
    ASSUME NEW s \in Texts, NEW l \in 1..Len(s)
    PROVE  Between(s, 1, l) \o <<s[l]>> = SubSeq(s, 1, l)
<1>1. 1 \in 1..Len(s) /\ l \in 1..Len(s)
  BY BytesOf
<1>2. SubSeq(s, 1, l) = SubSeq(s, 1, l - 1) \o <<s[l]>>
  BY <1>1, SubSeqRecursiveSecond DEF Texts
<1> QED
  BY <1>2 DEF Between

\* The first part that split() finds, and how many there are.
LEMMA SplitBegins ==
    ASSUME NEW s \in Texts
    PROVE  /\ Split(s, {Delim}) \in Seq(Plain)
           /\ Split(s, {Delim})[1] = Between(s, 1, FindFirstOf(s, {Delim}, 1))
           /\ Split(s, {Delim})[1] \in Texts
<1>1. PICK r : Splits(s, r) /\ Split(s, {Delim}) = r[1]
  BY SplitIs
<1>2. Npos(s) \in Nat /\ 1 \in 1..Npos(s)
  BY BytesOf
<1>3. PICK e, f : Piece(s, 1, e, f)
  BY <1>2, HasPiece
<1> DEFINE b == Between(s, 1, e)
           y == IF f # Npos(s) THEN r[f] ELSE IF e # Npos(s) THEN <<<<>>>> ELSE <<>>
<1>4. r[1] = <<b>> \o y
  <2>1. Splits(s, r)
    BY <1>1
  <2> QED
    BY <1>2, <1>3, <2>1, SplitPiece
<1>5. e = FindFirstOf(s, {Delim}, 1) /\ f \in 1..Npos(s)
  BY <1>2, <1>3 DEF Piece
<1>6. b \in Plain /\ b \in Texts
  BY <1>2, <1>3, PlainPiece, PlainIsText
<1>7. y \in Seq(Plain)
  <2>1. r \in [1..Npos(s) -> Seq(Plain)]
    BY <1>1 DEF Splits
  <2>2. r[f] \in Seq(Plain)
    BY <1>5, <2>1
  <2>3. <<<<>>>> \in Seq(Plain) /\ <<>> \in Seq(Plain)
    <3>1. <<>> \in Plain
      BY DEF Plain
    <3> QED
      BY <3>1
  <2> QED
    BY <2>2, <2>3
<1> HIDE DEF b, y
<1>8. r[1] \in Seq(Plain) /\ r[1][1] = b
  <2>1. <<b>> \in Seq(Plain) /\ Len(<<b>>) = 1 /\ <<b>>[1] = b
    BY <1>6
  <2>2. /\ <<b>> \o y \in Seq(Plain)
        /\ \A i \in 1..1 + Len(y) : (<<b>> \o y)[i] = IF i <= 1 THEN <<b>>[i] ELSE y[i - 1]
    BY <1>7, <2>1, ConcatProperties
  <2>3. 1 \in 1..1 + Len(y)
    BY <1>7, LenProperties
  <2>4. (<<b>> \o y)[1] = b
    BY <2>1, <2>2, <2>3
  <2> QED
    BY <1>4, <2>2, <2>4
<1> QED
  BY <1>1, <1>5, <1>6, <1>8 DEF b

\* The two sides of a dotted key, cut at its last delimiter.
LEMMA KeysRejoin ==
    ASSUME NEW s \in Texts, FindFirstOf(s, {Delim}, 1) # Npos(s)
    PROVE  /\ PathPrev(s, {Delim}) \o <<Delim>> \o KeyPrev(s, {Delim}) = s
           /\ PathPrev(s, {Delim}) \o SplitLast(s, {Delim}) = s
<1> DEFINE l == FindLastOf(s, {Delim})
           e == FindFirstOf(s, {Delim}, 1)
<1>1. Len(s) \in Nat /\ Npos(s) = Len(s) + 1 /\ 1 \in 1..Len(s) + 1
  BY BytesOf
<1>2. e \in 1..Len(s) /\ s[e] = Delim
  <2>1. e \in 1..Len(s) + 1 /\ (e = Len(s) + 1 \/ s[e] \in {Delim})
    BY <1>1, FirstOfIs
  <2> HIDE DEF e
  <2> QED
    BY <1>1, <2>1 DEF e
<1>3. l # Npos(s) /\ l \in 1..Len(s) /\ s[l] = Delim
  <2> HIDE DEF e, l
  <2> QED
    BY <1>2, LastOfIs DEF l
<1>4. /\ Between(s, 1, l) \o SubSeq(s, l, Len(s)) = s
      /\ Between(s, 1, l) \o <<s[l]>> \o SubSeq(s, l + 1, Len(s)) = s
  <2> HIDE DEF l
  <2> QED
    BY <1>3, Around
<1>5. /\ PathPrev(s, {Delim}) = Between(s, 1, l)
      /\ KeyPrev(s, {Delim}) = SubSeq(s, l + 1, Len(s))
      /\ SplitLast(s, {Delim}) = SubSeq(s, l, Len(s))
  BY <1>3, Zenon DEF PathPrev, KeyPrev, SplitLast, From
<1> HIDE DEF l
<1> QED
  BY <1>3, <1>4, <1>5

\* The two sides of its first delimiters.
LEMMA SidesRejoin ==
    ASSUME NEW s \in Texts, NEW first, first = FindFirstOf(s, {Delim}, 1), first # Npos(s)
    PROVE  IF \A i \in first..Len(s) : s[i] = Delim
           THEN SplitSecond(s, {Delim}) = Throws
           ELSE /\ SplitFirst(s, {Delim}) = Split(s, {Delim})[1]
                /\ Joined(<<Split(s, {Delim})[1], SplitSecond(s, {Delim})>>)
                      = SubSeq(s, 1, first) \o
                           SubSeq(s, FindFirstNotOf(s, {Delim}, first), Len(s))
<1> DEFINE n == Len(s)
           f == FindFirstNotOf(s, {Delim}, first)
           a == Between(s, 1, first)
           b == SubSeq(s, f, n)
<1>1. n \in Nat /\ Npos(s) = n + 1 /\ 1 \in 1..n + 1
  BY BytesOf
<1>2. first \in 1..n /\ s[first] = Delim
  <2>1. first \in 1..n + 1 /\ (first = n + 1 \/ s[first] \in {Delim})
    BY <1>1, FirstOfIs
  <2> QED
    BY <1>1, <2>1
<1>3. f \in first..n + 1 /\ (\A j \in first..f - 1 : s[j] \in {Delim}) /\ (f = n + 1 \/ s[f] \notin {Delim})
  <2>1. first \in 1..n + 1
    BY <1>1, <1>2
  <2> QED
    BY <1>1, <2>1, FirstNotOfIs
<1>4. SplitFirst(s, {Delim}) = a /\ SplitSecond(s, {Delim}) = From(s, f) /\ Split(s, {Delim})[1] = a
  BY SplitBegins, Zenon DEF SplitFirst, SplitSecond
<1> HIDE DEF n, f
<1>5. f = n + 1 <=> \A i \in first..n : s[i] = Delim
  <2>1. CASE f = n + 1
    <3>1. f - 1 = n
      BY <1>1, <2>1
    <3> QED
      BY <1>3, <2>1, <3>1
  <2>2. CASE f # n + 1
    <3>1. f \in first..n
      BY <1>1, <1>2, <1>3, <2>2
    <3> QED
      BY <1>3, <2>2, <3>1
  <2> QED
    BY <2>1, <2>2
<1>6. CASE f = n + 1
  BY <1>1, <1>4, <1>5, <1>6 DEF From, n
<1>7. CASE f # n + 1
  <2>1. SplitSecond(s, {Delim}) = b
    BY <1>1, <1>4, <1>7, Zenon DEF From, n
  <2>2. a \in Texts
    BY <1>4, SplitBegins
  <2>3. b \in Texts
    <3>1. f \in Int /\ n \in Int /\ \A i \in f..n : i \in 1..n
      BY <1>1, <1>2, <1>3
    <3>2. \A i \in f..n : s[i] \in 0..255
      BY <3>1, BytesOf DEF n
    <3> QED
      BY <3>1, <3>2, SubSeqProperties DEF Texts
  <2>4. a \o <<Delim>> = SubSeq(s, 1, first)
    <3>1. Between(s, 1, first) \o <<s[first]>> = SubSeq(s, 1, first)
      <4>1. first \in 1..Len(s)
        BY <1>2 DEF n
      <4> QED
        BY <4>1, UpToByte
    <3> QED
      BY <1>2, <3>1, Zenon
  <2> HIDE DEF a, b
  <2>5. Joined(<<a, b>>) = a \o <<Delim>> \o b
    <3>1. <<b>> \in Seq(Texts) /\ <<b>> # <<>>
      BY <2>3
    <3>2. <<a>> \o <<b>> = <<a, b>>
      <4>1. <<a>> \in Seq(Texts) /\ Len(<<a>>) = 1 /\ <<a>>[1] = a
        BY <2>2
      <4>2. <<b>> \in Seq(Texts) /\ Len(<<b>>) = 1 /\ <<b>>[1] = b
        BY <2>3
      <4>3. <<a, b>> \in Seq(Texts) /\ Len(<<a, b>>) = 2 /\ <<a, b>>[1] = a /\ <<a, b>>[2] = b
        BY <2>2, <2>3
      <4> DEFINE y == <<a>> \o <<b>>
      <4>4. /\ y \in Seq(Texts) /\ Len(y) = Len(<<a>>) + Len(<<b>>)
            /\ \A i \in 1..Len(<<a>>) + Len(<<b>>) :
                  y[i] = IF i <= Len(<<a>>) THEN <<a>>[i] ELSE <<b>>[i - Len(<<a>>)]
        BY <4>1, <4>2, ConcatProperties
      <4> HIDE DEF y
      <4>5. Len(y) = 2 /\ y[1] = a /\ y[2] = b
        BY <4>1, <4>2, <4>4
      <4>6. \A i \in 1..Len(y) : y[i] = <<a, b>>[i]
        BY <4>3, <4>5
      <4> DEFINE z == <<a, b>>
      <4>7. z \in Seq(Texts) /\ Len(y) = Len(z) /\ \A i \in 1..Len(y) : y[i] = z[i]
        BY <4>3, <4>5, <4>6
      <4> HIDE DEF z
      <4> QED
        BY <4>4, <4>7, SeqEqual DEF y, z
    <3>3. Joined(<<b>>) = b
      BY <2>3, JoinedOne
    <3> QED
      BY <2>2, <3>1, <3>2, <3>3, JoinedMore
  <2>6. ~ \A i \in first..n : s[i] = Delim
    BY <1>5, <1>7
  <2> QED
    BY <1>4, <2>1, <2>4, <2>5, <2>6 DEF a, b, n, f
<1> QED
  BY <1>6, <1>7

\* Without a delimiter there is nothing to cut.
LEMMA WholeKey ==
    ASSUME NEW s \in Texts, FindFirstOf(s, {Delim}, 1) = Npos(s)
    PROVE  SplitFirst(s, {Delim}) = <<>> /\ KeyPrev(s, {Delim}) = s
<1> DEFINE l == FindLastOf(s, {Delim})
           e == FindFirstOf(s, {Delim}, 1)
<1>1. Len(s) \in Nat /\ Npos(s) = Len(s) + 1 /\ 1 \in 1..Len(s) + 1
  BY BytesOf
<1>2. \A j \in 1..e - 1 : s[j] \notin {Delim}
  BY <1>1, FirstOfIs
<1>3. e - 1 = Len(s)
  BY <1>1
<1>4. l = Npos(s)
  <2>1. l # Npos(s) => l \in 1..Len(s) /\ s[l] = Delim
    BY LastOfIs
  <2> HIDE DEF l, e
  <2> QED
    BY <1>2, <1>3, <2>1
<1> QED
  BY <1>4, Zenon DEF SplitFirst, KeyPrev

\* Whatever text of whatever length is taken apart, the parts are that text.
THEOREM PartsAreRejoined == TextSpec => []PartsRejoin
<1>1. TextInit => TextType
  BY DEF TextInit, TextType
<1>2. TextType /\ [TextNext]_text => TextType'
  BY DEF TextType, TextNext, Grow
<1>3. ASSUME TextType PROVE PartsRejoin
  <2>1. text \in Texts
    <3>1. Bytes \subseteq 0..255
      BY BytesAssumption
    <3>2. Seq(Bytes) \subseteq Seq(0..255)
      BY <3>1, SeqMonotonic, ZenonT(60)
    <3> QED
      BY <1>3, <3>2 DEF TextType, Texts
  <2>2. Joined(Split(text, {Delim})) = Collapsed(text)
    BY <2>1, SplitJoins
  <2>3. \A i \in 1..Len(Split(text, {Delim})) :
          \A j \in 1..Len(Split(text, {Delim})[i]) : Split(text, {Delim})[i][j] # Delim
    <3> DEFINE parts == Split(text, {Delim})
    <3>1. parts \in Seq(Plain)
      BY <2>1, SplitBegins
    <3> HIDE DEF parts
    <3>2. \A i \in 1..Len(parts) : parts[i] \in Plain
      BY <3>1, ElementOfSeq
    <3>3. \A x \in Plain : \A j \in 1..Len(x) : x[j] # Delim
      <4>1. \A x \in Plain : \A j \in 1..Len(x) : x[j] \in (0..255) \ {Delim}
        BY ElementOfSeq DEF Plain
      <4> QED
        BY <4>1
    <3> QED
      BY <3>2, <3>3 DEF parts
  <2> DEFINE first == FindFirstOf(text, {Delim}, 1)
  <2>4. first # Npos(text) =>
          /\ PathPrev(text, {Delim}) \o <<Delim>> \o KeyPrev(text, {Delim}) = text
          /\ PathPrev(text, {Delim}) \o SplitLast(text, {Delim}) = text
    BY <2>1, KeysRejoin
  <2>5. first # Npos(text) =>
          IF \A i \in first..Len(text) : text[i] = Delim
          THEN SplitSecond(text, {Delim}) = Throws
          ELSE /\ SplitFirst(text, {Delim}) = Split(text, {Delim})[1]
               /\ Joined(<<Split(text, {Delim})[1], SplitSecond(text, {Delim})>>)
                     = SubSeq(text, 1, first) \o
                          SubSeq(text, FindFirstNotOf(text, {Delim}, first), Len(text))
    BY <2>1, SidesRejoin
  <2>6. first = Npos(text) => SplitFirst(text, {Delim}) = <<>> /\ KeyPrev(text, {Delim}) = text
    BY <2>1, WholeKey
  <2>7. ReplaceAny(text, {Delim}, <<Delim>>) =
          IF \A i \in 1..Len(text) : text[i] = Delim THEN Throws ELSE Stripped(Collapsed(text))
    BY <2>1, ReplaceAnyIs
  <2>8. Replace(text, <<Delim>>, <<Other>>) =
          [i \in 1..Len(text) |-> IF text[i] = Delim THEN Other ELSE text[i]]
    BY <2>1, ReplaceIs DEF Replaced
  <2> HIDE DEF first
  <2> QED
    BY <2>2, <2>3, <2>4, <2>5, <2>6, <2>7, <2>8, Zenon DEF PartsRejoin, first
<1>4. TextType => PartsRejoin
  BY <1>3
<1> QED
  BY <1>1, <1>2, <1>4, PTL DEF TextSpec
=============================================================================
