---------------------------- MODULE ConsoleProofs ----------------------------
(***************************************************************************)
(* The operator's tab, for any number of calls under way, sessions and     *)
(* visits to the page: requests carry a credential, the screen changes     *)
(* only with answers of its own session, and the page of an agent sends    *)
(* what was confirmed and keeps the draft until the server has it.         *)
(*                                                                         *)
(* SentAsConfirmed and DraftIsKept need to know which of the page's own    *)
(* calls are under way in each state of the dialog (DialogInv): a push     *)
(* only while it says "pushing", the reload after it only while it says    *)
(* "success", one at a time, and none once the timer runs.                 *)
(*                                                                         *)
(* At the end: the dialog of a push goes away, and the screen comes to     *)
(* show the fleet, or the refusal that stands in its way.                  *)
(***************************************************************************)
EXTENDS Console, TLAPS

Replies == Versions \cup Failures \cup {Waiting}

CallType == [kind : {"fleet", "page", "push", "reload"}, owner : Nat,
             cred : Creds \cup {NoCred}, body : Texts \cup {Nothing},
             agents : Replies, namespaces : Replies]

NetOK == net \in [Slots -> CallType \cup {Nothing}]

\* A call of the page's dialog: the push, or the reload after it.
OfDialog(s) == InUse(s) /\ net[s].kind \in {"push", "reload"} /\ Mine(net[s])

\* Calls of the page were made by instances there have been.
OwnersExist == \A s \in Slots : InUse(s) /\ net[s].kind # "fleet" => net[s].owner <= mount

\* The text that was confirmed is the draft, which the dialog does not let
\* anybody change; after a success the server has it.
DraftFixed ==
    /\ page.push # "idle" => page.editing /\ page.draft = asked
    /\ page.push = "success" => asked = accepted
    /\ timer => page.push = "success"

CallsFit ==
    \A s \in Slots : OfDialog(s) =>
        /\ ~timer
        /\ net[s].kind = "push" => page.push = "pushing" /\ net[s].body = page.draft
        /\ net[s].kind = "reload" => page.push = "success"

OneCall == \A s, t \in Slots : OfDialog(s) /\ OfDialog(t) => s = t

DialogInv == OwnersExist /\ DraftFixed /\ CallsFit /\ OneCall

-----------------------------------------------------------------------------
(* Types.                                                                  *)

LEMMA CallIsCall ==
    ASSUME TypeOK, NEW kind \in {"fleet", "page", "push", "reload"}, NEW owner \in Nat,
           NEW body \in Texts \cup {Nothing}
    PROVE  /\ Call(kind, owner, body) \in CallType
           /\ Call(kind, owner, body).kind = kind
           /\ Call(kind, owner, body).owner = owner
           /\ Call(kind, owner, body).cred = credential
           /\ Call(kind, owner, body).body = body
  BY DEF TypeOK, BrowserTypeOK, Call, CallType, Replies

\* A call takes a slot, and all others are left alone.
LEMMA AskTypes ==
    ASSUME TypeOK, NetOK, NEW s \in Slots, NEW c \in CallType,
           net' = [net EXCEPT ![s] = c]
    PROVE  NetOK' /\ DOMAIN net' = Slots
  BY DEF NetOK

\* Data are no failures, and nothing of either kind is a wait.
LEMMA ResultsDiffer ==
    Versions \cap Failures = {} /\ Waiting \notin Versions \cup Failures
  <1>1. Versions \subseteq Nat
    BY DEF Versions
  <1>2. {Waiting, Refused, Throttled, Broken} \cap Nat = {}
        /\ Waiting \notin {Refused, Throttled, Broken}
    BY BrowserConstants
  <1>. QED
    BY <1>1, <1>2 DEF Failures

LEMMA ResultsAre ==
    ASSUME TypeOK, NEW c, NEW result \in Results(c)
    PROVE  result \in Versions \cup Failures
  BY DEF Results, TypeOK, BrowserTypeOK, Failures

LEMMA SessionTypes ==
    ASSUME TypeOK, NetOK,
           (\E k \in Creds : SignIn(k)) \/ SignOut \/ OpenPage \/ LeavePage
             \/ ((Rotate \/ Progress) /\ UNCHANGED pageVars)
    PROVE  TypeOK' /\ NetOK'
  <1> USE DEF TypeOK, BrowserTypeOK, NetOK, tabVars, dataVars, serverVars, browserVars, pageVars
  <1>1. FreshPage \in [text : Versions \cup {Nothing}, error : Errors, editing : BOOLEAN,
                       draft : Texts \cup {Nothing},
                       push : {"idle", "confirm", "pushing", "success"}]
    BY DEF FreshPage, Errors
  <1>2. ASSUME NEW k \in Creds, SignIn(k) PROVE TypeOK' /\ NetOK'
    <2>1. session' \in 0 .. MaxLogins
      BY <1>2, BrowserConstants DEF SignIn, Login
    <2>2. mount' \in 0 .. MaxMounts
      BY <1>2, ConsoleConstants DEF SignIn
    <2>. QED
      BY <1>2, <2>1, <2>2 DEF SignIn, Login
  <1>3. CASE SignOut
    BY <1>1, <1>3 DEF SignOut, Logout, Unmount
  <1>4. CASE OpenPage
    BY <1>4, ConsoleConstants DEF OpenPage
  <1>5. CASE LeavePage
    BY <1>1, <1>5 DEF LeavePage, Unmount
  <1>6. CASE Rotate /\ UNCHANGED pageVars
    BY <1>6, BrowserConstants DEF Rotate
  <1>7. CASE Progress /\ UNCHANGED pageVars
    <2>1. table' \in Versions
      BY <1>7, BrowserConstants DEF Progress, Versions
    <2>. QED
      BY <1>7, <2>1 DEF Progress
  <1>. QED
    BY <1>2, <1>3, <1>4, <1>5, <1>6, <1>7

LEMMA ClickTypes ==
    ASSUME TypeOK, NetOK,
           StartEdit \/ CancelEdit \/ AskConfirm \/ CancelConfirm \/ CloseDialog
             \/ \E e \in Edits : Edit(e)
    PROVE  TypeOK' /\ NetOK'
  <1> USE DEF TypeOK, BrowserTypeOK, NetOK, tabVars, dataVars, serverVars, browserVars, Texts
  <1>1. CASE StartEdit
    BY <1>1 DEF StartEdit, Click, Usable
  <1>2. CASE CancelEdit
    BY <1>2 DEF CancelEdit, Click
  <1>3. CASE AskConfirm
    BY <1>3 DEF AskConfirm, Click
  <1>4. CASE CancelConfirm
    BY <1>4 DEF CancelConfirm, Click
  <1>5. CASE CloseDialog
    BY <1>5 DEF CloseDialog
  <1>6. CASE \E e \in Edits : Edit(e)
    BY <1>6 DEF Edit, Click
  <1>. QED
    BY <1>1, <1>2, <1>3, <1>4, <1>5, <1>6

LEMMA AskingTypes ==
    ASSUME TypeOK, NetOK, FleetStep \/ PageStep \/ \E s \in Slots : Confirm(s)
    PROVE  TypeOK' /\ NetOK'
  <1> USE DEF TypeOK, BrowserTypeOK, tabVars, dataVars, serverVars, pageVars
  <1>0. session \in Nat /\ mount \in Nat /\ page.draft \in Texts \cup {Nothing}
    OBVIOUS
  <1>1. ASSUME NEW s \in Slots, FleetTick(s), UNCHANGED pageVars PROVE TypeOK' /\ NetOK'
    <2>1. Call("fleet", session, Nothing) \in CallType
      BY <1>0, CallIsCall
    <2>2. NetOK' /\ DOMAIN net' = Slots
      BY <1>1, <2>1, AskTypes DEF FleetTick
    <2>. QED
      BY <1>1, <2>2 DEF FleetTick
  <1>2. ASSUME NEW s \in Slots, PageTick(s) PROVE TypeOK' /\ NetOK'
    <2>1. Call("page", mount, Nothing) \in CallType
      BY <1>0, CallIsCall
    <2>2. NetOK' /\ DOMAIN net' = Slots
      BY <1>2, <2>1, AskTypes DEF PageTick, Ask
    <2>. QED
      BY <1>2, <2>2 DEF PageTick, Ask
  <1>3. ASSUME NEW s \in Slots, Confirm(s) PROVE TypeOK' /\ NetOK'
    <2>1. Call("push", mount, page.draft) \in CallType
      BY <1>0, CallIsCall
    <2>. QED
      BY <1>3, <2>1, AskTypes DEF Confirm, Ask
  <1>. QED
    BY <1>1, <1>2, <1>3 DEF FleetStep, PageStep

LEMMA FleetAnswerTypes ==
    ASSUME TypeOK, NetOK, NEW s \in Slots, NEW part \in {"agents", "namespaces"},
           FleetAnswer(s, part), UNCHANGED pageVars
    PROVE  TypeOK' /\ NetOK'
  <1> PICK result \in Results(net[s]) :
        LET after == [net[s] EXCEPT ![part] = result]
            over == Waiting \notin {after.agents, after.namespaces}
        IN  /\ Heard(result)
            /\ Settle(net[s], after, result)
            /\ net' = [net EXCEPT ![s] = IF over THEN Nothing ELSE after]
    BY DEF FleetAnswer
  <1> DEFINE after == [net[s] EXCEPT ![part] = result]
  <1>1. net[s] \in CallType
    BY DEF FleetAnswer, NetOK
  <1>2. result \in Versions \cup Failures
    BY ResultsAre
  <1>3. after \in CallType
    BY <1>1, <1>2 DEF CallType, Replies
  <1>4. NetOK' /\ DOMAIN net' = Slots
    BY <1>3 DEF NetOK
  <1>5. /\ credential' \in Creds \cup {NoCred} /\ refused' \in BOOLEAN
        /\ UNCHANGED <<authed, session, valid, table>>
    BY DEF Heard, TypeOK, BrowserTypeOK
  <1>6. shown' \in [{"agents", "namespaces"} -> Versions \cup {Nothing}] /\ error' \in Errors
    <2>1. CASE Complete(after) /\ Show(after)
      BY <2>1 DEF Show, Complete, Errors
    <2>2. CASE GaveUp(after) /\ ~GaveUp(net[s]) /\ GiveUp(result)
      <3>1. result \in Failures
        BY <1>1, <1>3, <2>2 DEF GaveUp, CallType
      <3>. QED
        BY <2>2, <3>1 DEF GiveUp, Errors, TypeOK, BrowserTypeOK
    <2>3. CASE UNCHANGED dataVars
      BY <2>3 DEF dataVars, TypeOK, BrowserTypeOK
    <2>. QED
      BY <2>1, <2>2, <2>3 DEF Settle
  <1>7. failures' \in {failures, failures + 1}
    BY DEF Heard
  <1>. QED
    BY <1>4, <1>5, <1>6 DEF TypeOK, BrowserTypeOK, pageVars

LEMMA PageAnswerTypes ==
    ASSUME TypeOK, NetOK, NEW s \in Slots, PageAnswer(s) \/ PushAnswer(s)
    PROVE  TypeOK' /\ NetOK'
  <1>1. net[s] \in CallType
    BY DEF PageAnswer, PushAnswer, NetOK
  <1>2. ASSUME NEW result \in Results(net[s]), Heard(result)
        PROVE  /\ credential' \in Creds \cup {NoCred} /\ refused' \in BOOLEAN
               /\ UNCHANGED <<authed, session, valid, table>>
    BY <1>2 DEF Heard, TypeOK, BrowserTypeOK
  <1>3. CASE PageAnswer(s)
    <2> PICK result \in Results(net[s]) :
          /\ Heard(result)
          /\ page' = IF ~Mine(net[s]) THEN page
                     ELSE IF result \in Versions THEN [page EXCEPT !.text = result]
                     ELSE [page EXCEPT !.error = result]
      BY <1>3 DEF PageAnswer, Loaded
    <2>1. result \in Versions \cup Failures
      BY ResultsAre
    <2>2. page' \in [text : Versions \cup {Nothing}, error : Errors, editing : BOOLEAN,
                     draft : Texts \cup {Nothing},
                     push : {"idle", "confirm", "pushing", "success"}]
      BY <2>1 DEF Loaded, TypeOK, Errors
    <2>3. timer' \in BOOLEAN /\ NetOK' /\ DOMAIN net' = Slots
      BY <1>3 DEF PageAnswer, NetOK, TypeOK
    <2>. QED
      BY <1>2, <1>3, <2>2, <2>3 DEF PageAnswer, TypeOK, BrowserTypeOK, dataVars
  <1>4. CASE PushAnswer(s)
    <2> PICK result \in Results(net[s]) :
          /\ Heard(result)
          /\ \E took \in Taken(result) :
              accepted' = IF took /\ Mine(net[s]) THEN net[s].body ELSE accepted
          /\ page' = IF Mine(net[s]) THEN AfterPush(result) ELSE page
          /\ asked' = IF Mine(net[s]) /\ result \in Failures THEN Nothing ELSE asked
          /\ net' = [net EXCEPT ![s] = IF result \in Failures THEN Nothing
                                       ELSE Call("reload", net[s].owner, Nothing)]
      BY <1>4 DEF PushAnswer
    <2>1. Call("reload", net[s].owner, Nothing) \in CallType
      BY <1>1, CallIsCall DEF CallType
    <2>2. NetOK' /\ DOMAIN net' = Slots
      BY <2>1 DEF NetOK
    <2>3. accepted' \in Texts \cup {Nothing} /\ asked' \in Texts \cup {Nothing}
      BY <1>1 DEF CallType, TypeOK
    <2>4. page' \in [text : Versions \cup {Nothing}, error : Errors, editing : BOOLEAN,
                     draft : Texts \cup {Nothing},
                     push : {"idle", "confirm", "pushing", "success"}]
      BY DEF TypeOK, AfterPush
    <2>. QED
      BY <1>2, <1>4, <2>2, <2>3, <2>4 DEF PushAnswer, TypeOK, BrowserTypeOK, dataVars
  <1>. QED
    BY <1>3, <1>4

LEMMA NextTypes ==
    ASSUME TypeOK, NetOK, [Next]_vars
    PROVE  TypeOK' /\ NetOK'
  <1>1. CASE UNCHANGED vars
    BY <1>1 DEF vars, browserVars, tabVars, dataVars, serverVars, pageVars, TypeOK,
                BrowserTypeOK, NetOK
  <1>2. ASSUME NEW s \in Slots, Answered(s) PROVE TypeOK' /\ NetOK'
    BY <1>2, FleetAnswerTypes, PageAnswerTypes DEF Answered
  <1>. QED
    BY <1>1, <1>2, SessionTypes, ClickTypes, AskingTypes DEF Next

LEMMA InitTypes ==
    ASSUME Init
    PROVE  TypeOK /\ NetOK
  <1>1. BrowserTypeOK
    <2>1. shown \in [{"agents", "namespaces"} -> Versions \cup {Nothing}]
      BY DEF Init, BrowserInit
    <2>2. session \in 0 .. MaxLogins /\ table \in Versions
      BY BrowserConstants DEF Init, BrowserInit, Versions
    <2>3. credential \in Creds \cup {NoCred}
      BY BrowserConstants DEF Init, BrowserInit
    <2>. QED
      BY <2>1, <2>2, <2>3 DEF Init, BrowserInit, BrowserTypeOK, Errors
  <1>2. page \in [text : Versions \cup {Nothing}, error : Errors, editing : BOOLEAN,
                  draft : Texts \cup {Nothing},
                  push : {"idle", "confirm", "pushing", "success"}]
    BY DEF Init, FreshPage, Errors
  <1>3. NetOK
    BY DEF Init, BrowserInit, NetOK
  <1>. QED
    <2>1. mount \in 0 .. MaxMounts
      BY ConsoleConstants DEF Init
    <2>. QED
      BY <1>1, <1>2, <1>3, <2>1 DEF Init, TypeOK

\* client.ts, useFleetData.ts, App.tsx and AgentDetail.tsx: whatever comes in
\* whichever order, the state of the tab is what its types say.
THEOREM TypeCorrect == Spec => []TypeOK
  <1>1. Init => TypeOK /\ NetOK
    BY InitTypes
  <1>2. TypeOK /\ NetOK /\ [Next]_vars => TypeOK' /\ NetOK'
    BY NextTypes
  <1>. QED
    BY <1>1, <1>2, PTL DEF Spec
-----------------------------------------------------------------------------
(* The session.                                                            *)

\* useFleetData.ts:21-24: a signed-in tab sends its credential with every call,
\* as long as none was refused, but for the reload after a push whose operator
\* has signed out.
THEOREM CredentialsAreSent == Spec => []CredentiallessOnlyAfterRefusal
  <1> USE DEF CredentiallessOnlyAfterRefusal, InUse
  <1>1. ASSUME Init PROVE CredentiallessOnlyAfterRefusal
    BY <1>1 DEF Init, BrowserInit
  <1>2. ASSUME TypeOK, NetOK, CredentiallessOnlyAfterRefusal, [Next]_vars
        PROVE  CredentiallessOnlyAfterRefusal'
    <2> USE <1>2
    <2>1. ASSUME UNCHANGED <<credential, authed, refused, net>>
          PROVE  CredentiallessOnlyAfterRefusal'
      BY <2>1
    <2>2. CASE \E k \in Creds : SignIn(k)
      <3>1. PICK k \in Creds : Login(k)
        BY <2>2 DEF SignIn
      <3>2. authed' = TRUE /\ credential' # NoCred
        BY <3>1, BrowserConstants DEF Login
      <3>3. refused' = refused /\ net' = net
        BY <3>1 DEF Login
      <3>. QED
        BY <3>2, <3>3
    <2>3. CASE SignOut
      BY <2>3 DEF SignOut, Logout
    <2>4. ASSUME NEW s \in Slots, NEW kind \in {"fleet", "page", "push"},
                 NEW owner \in Nat, NEW body \in Texts \cup {Nothing},
                 authed, net' = [net EXCEPT ![s] = Call(kind, owner, body)],
                 UNCHANGED tabVars
          PROVE  CredentiallessOnlyAfterRefusal'
      <3>1. Call(kind, owner, body).cred = credential
        BY DEF Call
      <3>. QED
        BY <2>4, <3>1 DEF tabVars, NetOK
    <2>5. session \in Nat /\ mount \in Nat /\ page.draft \in Texts \cup {Nothing}
      BY DEF TypeOK, BrowserTypeOK
    <2>6. CASE FleetStep
      BY <2>4, <2>5, <2>6 DEF FleetStep, FleetTick
    <2>7. CASE PageStep
      BY <2>4, <2>5, <2>7 DEF PageStep, PageTick, Ask, Mounted
    <2>8. CASE \E s \in Slots : Confirm(s)
      BY <2>4, <2>5, <2>8 DEF Confirm, Ask, Usable, Mounted
    <2>9. ASSUME NEW s \in Slots, Answered(s) PROVE CredentiallessOnlyAfterRefusal'
      <3>1. /\ net[s] \in CallType /\ InUse(s)
            /\ \E result \in Results(net[s]) : Heard(result)
        BY <2>9 DEF Answered, FleetAnswer, PageAnswer, PushAnswer, NetOK
      <3>2. ~refused' => UNCHANGED <<credential, authed, refused>>
        BY <3>1 DEF Heard, TypeOK, BrowserTypeOK
      <3>3. \A t \in Slots : t # s => net'[t] = net[t]
        BY <2>9 DEF Answered, FleetAnswer, PageAnswer, PushAnswer, NetOK
      <3>4. \/ net'[s] = Nothing
            \/ net'[s].cred = net[s].cred /\ net'[s].kind = net[s].kind
            \/ net'[s].kind = "reload"
        <4>1. ASSUME NEW part \in {"agents", "namespaces"}, FleetAnswer(s, part)
              PROVE  \/ net'[s] = Nothing
                     \/ net'[s].cred = net[s].cred /\ net'[s].kind = net[s].kind
          BY <3>1, <4>1 DEF FleetAnswer, NetOK, CallType
        <4>2. CASE PageAnswer(s)
          BY <4>2 DEF PageAnswer, NetOK
        <4>3. CASE PushAnswer(s)
          <5>1. Call("reload", net[s].owner, Nothing).kind = "reload"
            BY DEF Call
          <5>. QED
            BY <4>3, <5>1 DEF PushAnswer, NetOK
        <4>. QED
          BY <2>9, <4>1, <4>2, <4>3 DEF Answered
      <3>. QED
        BY <3>1, <3>2, <3>3, <3>4
    <2>. QED
      BY <2>1, <2>2, <2>3, <2>6, <2>7, <2>8, <2>9
      DEF Next, vars, browserVars, tabVars, OpenPage, LeavePage, Rotate, Progress, Click,
          StartEdit, CancelEdit, AskConfirm, CancelConfirm, CloseDialog, Edit
  <1>3. Spec => [](TypeOK /\ NetOK)
    BY InitTypes, NextTypes, PTL DEF Spec
  <1>. QED
    BY <1>1, <1>2, <1>3, PTL DEF Spec

\* useFleetData.ts:35-54: the screen changes only with the answer to a poll of
\* the session it is shown in, however late the answers of earlier ones are.
THEOREM ScreenIsOfItsSession == Spec => AnswersOfThisSession
  <1>1. ASSUME TypeOK, NetOK, [Next]_vars, <<shown, error>>' # <<shown, error>>
        PROVE  /\ authed
               /\ \E s \in Slots : /\ InUse(s) /\ net'[s] # net[s]
                                   /\ net[s].kind = "fleet" /\ net[s].owner = session
    <2>1. PICK s \in Slots, part \in {"agents", "namespaces"} : FleetAnswer(s, part)
      BY <1>1
      DEF Next, vars, browserVars, dataVars, OpenPage, LeavePage, Rotate, Progress, Click,
          StartEdit, CancelEdit, AskConfirm, CancelConfirm, CloseDialog, Edit, SignIn, SignOut,
          Login, Logout, FleetStep, FleetTick, PageStep, PageTick, Ask, Confirm, Answered,
          PageAnswer, PushAnswer
    <2>2. InUse(s) /\ net[s] \in CallType /\ net[s].kind = "fleet" /\ net[s][part] = Waiting
      BY <1>1, <2>1 DEF FleetAnswer, InUse, NetOK
    <2> PICK result \in Results(net[s]) :
          LET after == [net[s] EXCEPT ![part] = result]
              over == Waiting \notin {after.agents, after.namespaces}
          IN  /\ Settle(net[s], after, result)
              /\ net' = [net EXCEPT ![s] = IF over THEN Nothing ELSE after]
      BY <2>1 DEF FleetAnswer
    <2> DEFINE after == [net[s] EXCEPT ![part] = result]
    <2>3. authed /\ net[s].owner = session
      BY <1>1 DEF Settle, Live, dataVars
    <2>4. result # Waiting
      BY <1>1, ResultsAre, ResultsDiffer
    <2>5. after[part] = result
      BY <2>2 DEF CallType
    <2>6. net'[s] # net[s]
      BY <1>1, <2>2, <2>4, <2>5 DEF NetOK, InUse
    <2>. QED
      BY <2>2, <2>3, <2>6
  <1>2. Spec => [](TypeOK /\ NetOK)
    BY InitTypes, NextTypes, PTL DEF Spec
  <1>. QED
    BY <1>1, <1>2, PTL DEF Spec, AnswersOfThisSession
-----------------------------------------------------------------------------
(* The dialog.                                                             *)

\* A step that starts no call of the dialog leaves the calls in order, unless
\* it touches the dialog.
LEMMA CallsKept ==
    ASSUME DialogInv, UNCHANGED <<mount, timer, asked, accepted>>,
           page'.push = page.push, page'.draft = page.draft, page'.editing = page.editing,
           \A s \in Slots : OfDialog(s)' => OfDialog(s) /\ net'[s] = net[s],
           OwnersExist'
    PROVE  DialogInv'
  BY DEF DialogInv, DraftFixed, CallsFit, OneCall

\* With no call of the dialog under way there is only the draft to look after.
LEMMA NoCallsFit ==
    ASSUME OwnersExist', DraftFixed', \A s \in Slots : ~OfDialog(s)'
    PROVE  DialogInv'
  BY DEF DialogInv, CallsFit, OneCall

LEMMA VisitKeepsDialog ==
    ASSUME TypeOK, NetOK, DialogInv,
           (\E k \in Creds : SignIn(k)) \/ SignOut \/ OpenPage \/ LeavePage
    PROVE  DialogInv'
  <1>0. mount \in Nat /\ \A s \in Slots : InUse(s) => net[s].owner \in Nat
    BY DEF TypeOK, NetOK, InUse, CallType
  <1>1. net' = net /\ mount' \in {mount, mount + 1}
    BY DEF SignIn, Login, SignOut, Logout, OpenPage, LeavePage, browserVars
  <1>2. OwnersExist'
    BY <1>0, <1>1 DEF DialogInv, OwnersExist, InUse
  <1>3. DraftFixed'
    BY DEF SignIn, SignOut, OpenPage, LeavePage, Unmount, FreshPage, DialogInv, DraftFixed
  <1>4. Mounted' => mount' = mount + 1
    BY DEF SignIn, Login, SignOut, Logout, OpenPage, LeavePage, Mounted
  <1>5. \A s \in Slots : ~OfDialog(s)'
    BY <1>0, <1>1, <1>4 DEF OfDialog, Mine, InUse, DialogInv, OwnersExist
  <1>. QED
    BY <1>2, <1>3, <1>5, NoCallsFit

\* The buttons there are while the dialog waits for the operator, and the timer.
LEMMA ClickKeepsDialog ==
    ASSUME TypeOK, DialogInv,
           StartEdit \/ CancelEdit \/ AskConfirm \/ CancelConfirm \/ CloseDialog
             \/ \E e \in Edits : Edit(e)
    PROVE  DialogInv'
  <1>1. timer \/ page.push \in {"idle", "confirm"}
    BY DEF StartEdit, CancelEdit, AskConfirm, CancelConfirm, CloseDialog, Edit, DialogInv,
           DraftFixed
  <1>2. \A s \in Slots : ~OfDialog(s)
    BY <1>1 DEF DialogInv, CallsFit, OfDialog
  <1>3. UNCHANGED <<net, mount, open, authed>>
    BY DEF StartEdit, CancelEdit, AskConfirm, CancelConfirm, CloseDialog, Edit, Click,
           browserVars, tabVars
  <1>4. \A s \in Slots : ~OfDialog(s)'
    BY <1>2, <1>3 DEF OfDialog, InUse, Mine, Mounted
  <1>5. OwnersExist'
    BY <1>3 DEF DialogInv, OwnersExist, InUse
  <1>6. DraftFixed'
    <2> USE DEF DialogInv, DraftFixed, TypeOK
    <2>1. CASE StartEdit
      BY <2>1 DEF StartEdit, Click
    <2>2. CASE CancelEdit
      BY <2>2 DEF CancelEdit, Click
    <2>3. CASE AskConfirm
      BY <2>3 DEF AskConfirm, Click
    <2>4. CASE CancelConfirm
      BY <2>4 DEF CancelConfirm, Click
    <2>5. CASE CloseDialog
      BY <2>5 DEF CloseDialog
    <2>6. CASE \E e \in Edits : Edit(e)
      BY <2>6 DEF Edit, Click
    <2>. QED
      BY <2>1, <2>2, <2>3, <2>4, <2>5, <2>6
  <1>. QED
    BY <1>4, <1>5, <1>6, NoCallsFit

LEMMA AskingKeepsDialog ==
    ASSUME TypeOK, NetOK, DialogInv, FleetStep \/ PageStep
    PROVE  DialogInv'
  <1>0. session \in Nat /\ mount \in Nat
    BY DEF TypeOK, BrowserTypeOK
  <1>1. PICK s \in Slots, kind \in {"fleet", "page"}, owner \in {session, mount} :
            /\ net' = [net EXCEPT ![s] = Call(kind, owner, Nothing)]
            /\ kind # "fleet" => owner = mount
            /\ UNCHANGED <<pageVars, authed>>
    BY DEF FleetStep, FleetTick, PageStep, PageTick, Ask, tabVars
  <1>2. /\ Call(kind, owner, Nothing).kind = kind
        /\ Call(kind, owner, Nothing).owner = owner
    BY DEF Call
  <1>3. /\ net'[s] = Call(kind, owner, Nothing)
        /\ \A t \in Slots : t # s => net'[t] = net[t]
    BY <1>1 DEF NetOK
  <1>4. OwnersExist'
    BY <1>0, <1>1, <1>2, <1>3 DEF DialogInv, OwnersExist, InUse, pageVars
  <1>5. \A t \in Slots : OfDialog(t)' => OfDialog(t) /\ net'[t] = net[t]
    BY <1>1, <1>2, <1>3 DEF OfDialog, InUse, Mine, Mounted, pageVars
  <1>. QED
    BY <1>1, <1>4, <1>5, CallsKept DEF pageVars

LEMMA ConfirmKeepsDialog ==
    ASSUME TypeOK, NetOK, DialogInv, NEW s \in Slots, Confirm(s)
    PROVE  DialogInv'
  <1>0. mount \in Nat
    BY DEF TypeOK
  <1>1. /\ net' = [net EXCEPT ![s] = Call("push", mount, page.draft)]
        /\ page.push = "confirm" /\ page' = [page EXCEPT !.push = "pushing"]
        /\ UNCHANGED <<open, mount, timer, asked, accepted, authed>>
    BY DEF Confirm, Ask, tabVars
  <1>2. /\ Call("push", mount, page.draft).kind = "push"
        /\ Call("push", mount, page.draft).owner = mount
        /\ Call("push", mount, page.draft).body = page.draft
    BY DEF Call
  <1>3. /\ net'[s] = Call("push", mount, page.draft)
        /\ \A t \in Slots : t # s => net'[t] = net[t]
    BY <1>1 DEF NetOK
  <1>4. ~timer /\ \A t \in Slots : ~OfDialog(t)
    BY <1>1 DEF DialogInv, DraftFixed, CallsFit, OfDialog
  <1>5. \A t \in Slots : OfDialog(t)' => t = s
    BY <1>1, <1>3, <1>4 DEF OfDialog, InUse, Mine, Mounted
  <1>6. page'.push = "pushing" /\ page'.draft = page.draft /\ page'.editing = page.editing
    BY <1>1 DEF TypeOK
  <1>7. OwnersExist'
    BY <1>0, <1>1, <1>2, <1>3 DEF DialogInv, OwnersExist, InUse
  <1>8. DraftFixed'
    BY <1>1, <1>4, <1>6 DEF DialogInv, DraftFixed
  <1>9. CallsFit'
    BY <1>1, <1>2, <1>3, <1>4, <1>5, <1>6 DEF CallsFit
  <1>. QED
    BY <1>5, <1>7, <1>8, <1>9 DEF DialogInv, OneCall

LEMMA FleetAnswerKeepsDialog ==
    ASSUME NetOK, DialogInv, NEW s \in Slots, NEW part \in {"agents", "namespaces"},
           FleetAnswer(s, part), UNCHANGED pageVars
    PROVE  DialogInv'
  <1>1. net[s] \in CallType /\ net[s].kind = "fleet" /\ UNCHANGED authed
    BY DEF FleetAnswer, NetOK, Heard
  <1>2. net'[s] = Nothing \/ net'[s].kind = "fleet"
    BY <1>1 DEF FleetAnswer, NetOK, CallType
  <1>3. \A t \in Slots : t # s => net'[t] = net[t]
    BY DEF FleetAnswer, NetOK
  <1>4. OwnersExist'
    BY <1>2, <1>3 DEF DialogInv, OwnersExist, InUse, pageVars
  <1>5. \A t \in Slots : OfDialog(t)' => OfDialog(t) /\ net'[t] = net[t]
    BY <1>1, <1>2, <1>3 DEF OfDialog, InUse, Mine, Mounted, pageVars
  <1>. QED
    BY <1>4, <1>5, CallsKept DEF pageVars

LEMMA PageAnswerKeepsDialog ==
    ASSUME TypeOK, NetOK, DialogInv, NEW s \in Slots, PageAnswer(s)
    PROVE  DialogInv'
  <1>1. /\ InUse(s) /\ net[s].kind \in {"page", "reload"} /\ net' = [net EXCEPT ![s] = Nothing]
        /\ UNCHANGED <<open, mount, asked, accepted, authed>>
        /\ timer' = (timer \/ (Mine(net[s]) /\ net[s].kind = "reload"))
    BY DEF PageAnswer, Heard, InUse
  <1>2. page'.push = page.push /\ page'.draft = page.draft /\ page'.editing = page.editing
    BY DEF PageAnswer, Loaded, TypeOK
  <1>3. \A t \in Slots : t # s => net'[t] = net[t]
    BY <1>1 DEF NetOK
  <1>4. net'[s] = Nothing
    BY <1>1 DEF NetOK
  <1>5. OwnersExist'
    BY <1>1, <1>3, <1>4 DEF DialogInv, OwnersExist, InUse
  <1>6. \A t \in Slots : OfDialog(t)' => t # s /\ OfDialog(t) /\ net'[t] = net[t]
    BY <1>1, <1>3, <1>4 DEF OfDialog, InUse, Mine, Mounted
  <1>7. CASE OfDialog(s)
    <2>1. page.push = "success"
      BY <1>1, <1>7 DEF DialogInv, CallsFit, OfDialog
    <2>2. \A t \in Slots : ~OfDialog(t)'
      BY <1>6, <1>7 DEF DialogInv, OneCall
    <2>3. DraftFixed'
      BY <1>1, <1>2, <2>1 DEF DialogInv, DraftFixed
    <2>. QED
      BY <1>5, <2>2, <2>3, NoCallsFit
  <1>8. CASE ~OfDialog(s)
    <2>1. timer' = timer
      BY <1>1, <1>8 DEF OfDialog, TypeOK
    <2>. QED
      BY <1>1, <1>2, <1>5, <1>6, <2>1, CallsKept
  <1>. QED
    BY <1>7, <1>8

LEMMA PushAnswerKeepsDialog ==
    ASSUME TypeOK, NetOK, DialogInv, NEW s \in Slots, PushAnswer(s)
    PROVE  DialogInv'
  <1> PICK result \in Results(net[s]) :
          /\ Heard(result)
          /\ \E took \in Taken(result) :
              accepted' = IF took /\ Mine(net[s]) THEN net[s].body ELSE accepted
          /\ page' = IF Mine(net[s]) THEN AfterPush(result) ELSE page
          /\ asked' = IF Mine(net[s]) /\ result \in Failures THEN Nothing ELSE asked
          /\ net' = [net EXCEPT ![s] = IF result \in Failures THEN Nothing
                                       ELSE Call("reload", net[s].owner, Nothing)]
    BY DEF PushAnswer
  <1> PICK took \in Taken(result) :
          accepted' = IF took /\ Mine(net[s]) THEN net[s].body ELSE accepted
    OBVIOUS
  <1>1. /\ InUse(s) /\ net[s].kind = "push"
        /\ UNCHANGED <<open, mount, timer, authed>>
    BY DEF PushAnswer, Heard, InUse
  <1>2. result \in Versions \cup Failures
    BY ResultsAre
  <1>3. /\ \A t \in Slots : t # s => net'[t] = net[t]
        /\ net'[s] = IF result \in Failures THEN Nothing
                     ELSE Call("reload", net[s].owner, Nothing)
    BY DEF NetOK
  <1>4. /\ Call("reload", net[s].owner, Nothing).kind = "reload"
        /\ Call("reload", net[s].owner, Nothing).owner = net[s].owner
    BY DEF Call
  <1>5. OwnersExist'
    BY <1>1, <1>3, <1>4 DEF DialogInv, OwnersExist, InUse
  <1>6. \A t \in Slots : t # s /\ OfDialog(t)' => OfDialog(t) /\ net'[t] = net[t]
    BY <1>1, <1>3 DEF OfDialog, InUse, Mine, Mounted
  <1>7. CASE ~Mine(net[s])
    <2>1. ~OfDialog(s)'
      BY <1>1, <1>3, <1>4, <1>7 DEF OfDialog, InUse, Mine, Mounted
    <2>2. UNCHANGED <<page, asked, accepted>>
      BY <1>7
    <2>. QED
      BY <1>1, <1>5, <1>6, <2>1, <2>2, CallsKept
  <1>8. CASE Mine(net[s])
    <2>1. /\ OfDialog(s) /\ ~timer
          /\ page.push = "pushing" /\ net[s].body = page.draft
          /\ page.editing /\ page.draft = asked
      BY <1>1, <1>8 DEF OfDialog, DialogInv, CallsFit, DraftFixed
    <2>2. \A t \in Slots : OfDialog(t)' => t = s
      BY <1>6, <2>1 DEF DialogInv, OneCall
    <2>3. CASE result \in Failures
      <3>1. \A t \in Slots : ~OfDialog(t)'
        BY <1>3, <2>2, <2>3 DEF OfDialog, InUse
      <3>2. page'.push = "idle"
        BY <1>8, <2>3 DEF AfterPush, TypeOK
      <3>3. DraftFixed'
        BY <1>1, <2>1, <3>2 DEF DraftFixed
      <3>. QED
        BY <1>5, <3>1, <3>3, NoCallsFit
    <2>4. CASE result \notin Failures
      <3>1. page'.push = "success" /\ page'.draft = page.draft /\ page'.editing = page.editing
        BY <1>8, <2>4 DEF AfterPush, TypeOK
      <3>2. took = TRUE
        <4>1. result \in Versions /\ result \notin {Refused, Throttled, Broken}
          BY <1>2, <2>4 DEF Failures
        <4>. QED
          BY <4>1 DEF Taken
      <3>3. asked' = asked /\ accepted' = page.draft
        BY <1>8, <2>1, <2>4, <3>2
      <3>4. DraftFixed'
        BY <1>1, <2>1, <3>1, <3>3 DEF DraftFixed
      <3>5. CallsFit'
        BY <1>1, <1>3, <1>4, <2>1, <2>2, <2>4, <3>1 DEF CallsFit
      <3>. QED
        BY <1>5, <2>2, <3>4, <3>5 DEF DialogInv, OneCall
    <2>. QED
      BY <2>3, <2>4
  <1>. QED
    BY <1>7, <1>8

LEMMA NextKeepsDialog ==
    ASSUME TypeOK, NetOK, DialogInv, [Next]_vars
    PROVE  DialogInv'
  <1>1. CASE UNCHANGED <<pageVars, net, authed>>
    BY <1>1 DEF pageVars, DialogInv, OwnersExist, DraftFixed, CallsFit, OneCall, OfDialog,
                InUse, Mine, Mounted
  <1>2. ASSUME NEW s \in Slots, Answered(s) PROVE DialogInv'
    BY <1>2, FleetAnswerKeepsDialog, PageAnswerKeepsDialog, PushAnswerKeepsDialog DEF Answered
  <1>. QED
    BY <1>1, <1>2, VisitKeepsDialog, ClickKeepsDialog, AskingKeepsDialog, ConfirmKeepsDialog
    DEF Next, vars, browserVars, tabVars, Rotate, Progress

LEMMA DialogInvariant == Spec => [](TypeOK /\ NetOK /\ DialogInv)
  <1>1. Init => TypeOK /\ NetOK
    BY InitTypes
  <1>2. Init => DialogInv
    BY DEF Init, BrowserInit, FreshPage, DialogInv, OwnersExist, DraftFixed, CallsFit, OneCall,
           OfDialog, InUse
  <1>3. TypeOK /\ NetOK /\ DialogInv /\ [Next]_vars => TypeOK' /\ NetOK' /\ DialogInv'
    BY NextTypes, NextKeepsDialog
  <1>. QED
    BY <1>1, <1>2, <1>3, PTL DEF Spec

\* AgentDetail.tsx:143-166: the server is sent only what the operator was asked
\* to confirm, although the page is polled meanwhile; and the page says it was
\* sent only if the server has it.
THEOREM SendsWhatWasConfirmed == Spec => []SentAsConfirmed
  <1>1. DialogInv => SentAsConfirmed
    BY DEF DialogInv, DraftFixed, SentAsConfirmed
  <1>. QED
    BY <1>1, DialogInvariant, PTL

\* AgentDetail.tsx:47-73: unless the operator changes it, a draft stays in the
\* editor as it is until the server has it.
THEOREM DraftsAreKept == Spec => DraftIsKept
  <1>1. ASSUME TypeOK, NetOK, DialogInv, [Next]_vars, page.editing, ~OperatorActs
        PROVE  \/ page'.editing /\ page'.draft = page.draft
               \/ page.push = "success" /\ page.draft = accepted
    <2>1. CASE CloseDialog
      BY <1>1, <2>1 DEF CloseDialog, DialogInv, DraftFixed
    <2>2. ASSUME NEW s \in Slots, PageAnswer(s)
          PROVE  page'.editing /\ page'.draft = page.draft
      BY <1>1, <2>2 DEF PageAnswer, Loaded, TypeOK
    <2>3. ASSUME NEW s \in Slots, PushAnswer(s)
          PROVE  page'.editing /\ page'.draft = page.draft
      BY <1>1, <2>3 DEF PushAnswer, AfterPush, TypeOK
    <2>4. ~StartEdit
      BY <1>1 DEF StartEdit
    <2>5. CASE AskConfirm \/ CancelConfirm
      BY <1>1, <2>5 DEF AskConfirm, CancelConfirm, Click, TypeOK
    <2>6. ASSUME NEW s \in Slots, Confirm(s)
          PROVE  page'.editing /\ page'.draft = page.draft
      BY <1>1, <2>6 DEF Confirm, TypeOK
    <2>7. CASE UNCHANGED page
      BY <1>1, <2>7
    <2>. QED
      BY <1>1, <2>1, <2>2, <2>3, <2>4, <2>5, <2>6, <2>7
      DEF Next, OperatorActs, vars, pageVars, SignIn, OpenPage, FleetStep, PageStep, PageTick,
          Answered
  <1>. QED
    BY <1>1, DialogInvariant, PTL DEF Spec, DraftIsKept

-----------------------------------------------------------------------------
(* The end of a dialog. The provers know nothing of ENABLED: fairness is    *)
(* stated here with the guards of the actions, all else in them being       *)
(* assignments. The [] is there for the provers: what holds of fairness     *)
(* once holds always.                                                      *)

AnswerComes(s) == []<>~InUse(s) \/ []<><<Answered(s)>>_vars
Answering == \A s \in Slots : AnswerComes(s)
CallsEnd == []Answering
TimerFires == []<>~(Mounted /\ timer) \/ []<><<CloseDialog>>_vars

Pushing(s) == OfDialog(s) /\ net[s].kind = "push"
Reloading(s) == OfDialog(s) /\ net[s].kind = "reload"

\* A dialog that neither rests nor waits for the operator waits for a call of
\* its own, or for its timer.
DialogServed ==
    /\ page.push = "pushing" => \E s \in Slots : Pushing(s)
    /\ page.push = "success" => timer \/ \E s \in Slots : Reloading(s)
    /\ timer => Mounted

\* A call of the dialog is a call.
LEMMA CallIsThere ==
    ASSUME TypeOK, NEW kind \in {"fleet", "push", "reload"}, NEW owner \in Nat,
           NEW body \in Texts \cup {Nothing}
    PROVE  Call(kind, owner, body) # Nothing
  BY ConsoleConstants DEF Call, TypeOK, BrowserTypeOK, Texts

\* A push that is answered well is followed by the reload, and that by the timer.
LEMMA DialogCallAnswered ==
    ASSUME TypeOK, NetOK, DialogInv, NEW s \in Slots, OfDialog(s), Answered(s)
    PROVE  \/ page'.push = "idle"
           \/ Pushing(s) /\ Reloading(s)' /\ page'.push = "success"
           \/ Reloading(s) /\ timer' /\ Mounted' /\ page'.push = "success"
  <1>1. /\ InUse(s) /\ Mine(net[s]) /\ Mounted /\ net[s] \in CallType
        /\ net[s].kind = "reload" => page.push = "success"
    BY DEF DialogInv, CallsFit, OfDialog, Mine, InUse, NetOK
  <1>2. CASE PushAnswer(s)
    <2>1. PICK result \in Results(net[s]) :
              /\ Heard(result)
              /\ page' = IF Mine(net[s]) THEN AfterPush(result) ELSE page
              /\ net' = [net EXCEPT ![s] = IF result \in Failures THEN Nothing
                                           ELSE Call("reload", net[s].owner, Nothing)]
      BY <1>2 DEF PushAnswer
    <2>2. CASE result \in Failures
      BY <1>1, <2>1, <2>2 DEF AfterPush, TypeOK
    <2>3. CASE result \notin Failures
      <3>1. net'[s] = Call("reload", net[s].owner, Nothing) /\ page'.push = "success"
        BY <1>1, <2>1, <2>3 DEF NetOK, AfterPush, TypeOK
      <3>2. /\ Call("reload", net[s].owner, Nothing) # Nothing
            /\ Call("reload", net[s].owner, Nothing).kind = "reload"
            /\ Call("reload", net[s].owner, Nothing).owner = net[s].owner
        BY <1>1, CallIsThere, CallIsCall DEF CallType
      <3>3. UNCHANGED <<open, mount, authed>>
        BY <1>2, <2>1 DEF PushAnswer, Heard
      <3>4. Reloading(s)'
        BY <1>1, <3>1, <3>2, <3>3 DEF Reloading, OfDialog, InUse, Mine, Mounted
      <3>. QED
        BY <1>2, <3>1, <3>4 DEF Pushing, PushAnswer
    <2>. QED
      BY <2>2, <2>3
  <1>3. CASE PageAnswer(s)
    <2>1. Reloading(s)
      BY <1>3 DEF PageAnswer, OfDialog, Reloading
    <2>2. page'.push = page.push /\ timer' /\ UNCHANGED <<open, mount, authed>>
      BY <1>1, <1>3, <2>1 DEF PageAnswer, Loaded, Heard, Reloading, TypeOK
    <2>. QED
      BY <1>1, <2>1, <2>2 DEF Reloading, Mounted
  <1>. QED
    BY <1>2, <1>3 DEF Answered, FleetAnswer, OfDialog

\* Otherwise it stays as it is, unless the page is gone.
LEMMA DialogCallMoves ==
    ASSUME TypeOK, NetOK, DialogInv, [Next]_vars, NEW s \in Slots,
           OfDialog(s), ~Answered(s)
    PROVE  \/ page'.push = "idle"
           \/ OfDialog(s)' /\ net'[s] = net[s] /\ page'.push = page.push
  <1>1. /\ InUse(s) /\ Mine(net[s]) /\ Mounted /\ ~timer
        /\ page.push \in {"pushing", "success"} /\ page.editing
    BY DEF DialogInv, CallsFit, DraftFixed, OfDialog, Mine
  <1>2. CASE SignOut \/ LeavePage
    BY <1>2 DEF SignOut, LeavePage, Unmount, FreshPage
  <1>3. ASSUME net'[s] = net[s], page'.push = page.push, UNCHANGED <<open, mount, authed>>
        PROVE  OfDialog(s)'
    BY <1>3 DEF OfDialog, InUse, Mine, Mounted
  <1>4. CASE UNCHANGED <<pageVars, net, authed>>
    BY <1>3, <1>4 DEF pageVars
  <1>5. CASE FleetStep \/ PageStep
    <2>1. PICK t \in Slots : FleetTick(t) \/ Ask(t, "page", Nothing)
      BY <1>5 DEF FleetStep, PageStep, PageTick
    <2>2. t # s
      BY <1>1, <2>1 DEF FleetTick, Ask, Free, InUse
    <2>. QED
      BY <1>3, <1>5, <2>1, <2>2
      DEF FleetStep, FleetTick, PageStep, PageTick, Ask, pageVars, tabVars, NetOK
  <1>6. ASSUME NEW t \in Slots, Answered(t)
        PROVE  /\ net'[s] = net[s] /\ page'.push = page.push
               /\ UNCHANGED <<open, mount, authed>>
    <2>1. t # s
      BY <1>6
    <2>2. PushAnswer(t) => ~Mine(net[t])
      BY <2>1 DEF PushAnswer, DialogInv, OneCall, OfDialog, InUse
    <2>3. net'[s] = net[s]
      BY <1>6, <2>1 DEF Answered, FleetAnswer, PageAnswer, PushAnswer, NetOK
    <2>4. page'.push = page.push
      BY <1>6, <2>2 DEF Answered, pageVars, PageAnswer, Loaded, PushAnswer, TypeOK
    <2>. QED
      BY <1>6, <2>3, <2>4 DEF Answered, FleetAnswer, PageAnswer, PushAnswer, Heard, pageVars
  <1>7. ~(\E t \in Slots : Confirm(t)) /\ ~OpenPage /\ ~(\E k \in Creds : SignIn(k))
    BY <1>1 DEF Confirm, OpenPage, SignIn, Login, Mounted
  <1>8. ~(StartEdit \/ CancelEdit \/ AskConfirm \/ CancelConfirm \/ CloseDialog
            \/ \E e \in Edits : Edit(e))
    BY <1>1 DEF StartEdit, CancelEdit, AskConfirm, CancelConfirm, CloseDialog, Edit
  <1>. QED
    BY <1>2, <1>3, <1>4, <1>5, <1>6, <1>7, <1>8
    DEF Next, vars, browserVars, tabVars, Rotate, Progress

\* The timer of a dialog runs until it closes the dialog, or its page is gone.
LEMMA TimerMoves ==
    ASSUME TypeOK, NetOK, DialogInv, [Next]_vars, timer, Mounted
    PROVE  page'.push = "idle" \/ (timer' /\ Mounted' /\ page'.push = "success")
  <1>1. page.push = "success" /\ page.editing /\ \A s \in Slots : ~OfDialog(s)
    BY DEF DialogInv, DraftFixed, CallsFit
  <1>2. CASE SignOut \/ LeavePage \/ CloseDialog
    <2>1. CloseDialog => page'.push = "idle"
      BY DEF CloseDialog, TypeOK
    <2>. QED
      BY <1>2, <2>1 DEF SignOut, LeavePage, Unmount, FreshPage
  <1>3. ASSUME NEW s \in Slots, Answered(s)
        PROVE  timer' /\ page'.push = page.push /\ UNCHANGED <<open, authed>>
    <2>1. PushAnswer(s) => ~Mine(net[s])
      BY <1>1 DEF PushAnswer, OfDialog, InUse
    <2>. QED
      BY <1>3, <2>1
      DEF Answered, FleetAnswer, PageAnswer, Loaded, PushAnswer, Heard, pageVars, TypeOK
  <1>4. CASE FleetStep \/ PageStep
    BY <1>1, <1>4 DEF FleetStep, FleetTick, PageStep, PageTick, Ask, pageVars, tabVars, Mounted
  <1>5. CASE UNCHANGED <<pageVars, authed>>
    BY <1>1, <1>5 DEF pageVars, Mounted
  <1>6. ~(\E s \in Slots : Confirm(s)) /\ ~OpenPage /\ ~(\E k \in Creds : SignIn(k))
    BY <1>1 DEF Confirm, OpenPage, SignIn, Login, Mounted
  <1>7. ~(StartEdit \/ CancelEdit \/ AskConfirm \/ CancelConfirm \/ \E e \in Edits : Edit(e))
    BY <1>1 DEF StartEdit, CancelEdit, AskConfirm, CancelConfirm, Edit
  <1>8. CASE ((Rotate \/ Progress) /\ UNCHANGED pageVars) \/ UNCHANGED vars
    BY <1>5, <1>8 DEF vars, browserVars, tabVars, Rotate, Progress
  <1>. QED
    BY <1>1, <1>2, <1>3, <1>4, <1>6, <1>7, <1>8 DEF Next, Mounted

\* A dialog is sent off with a call.
LEMMA DialogStarts ==
    ASSUME TypeOK, NetOK, DialogInv, [Next]_vars, page.push \in {"idle", "confirm"}
    PROVE  page'.push \in {"idle", "confirm"} \/ \E s \in Slots : Pushing(s)'
  <1>1. \A s \in Slots : ~OfDialog(s)
    BY DEF DialogInv, CallsFit, OfDialog
  <1>2. ASSUME NEW s \in Slots, Confirm(s) PROVE Pushing(s)'
    <2>1. /\ net'[s] = Call("push", mount, page.draft)
          /\ UNCHANGED <<open, mount, authed>> /\ Mounted
      BY <1>2 DEF Confirm, Ask, tabVars, NetOK, Usable
    <2>2. /\ Call("push", mount, page.draft) # Nothing
          /\ Call("push", mount, page.draft).kind = "push"
          /\ Call("push", mount, page.draft).owner = mount
      BY CallIsThere, CallIsCall DEF TypeOK
    <2>. QED
      BY <2>1, <2>2 DEF Pushing, OfDialog, InUse, Mine, Mounted
  <1>3. ASSUME NEW s \in Slots, Answered(s) PROVE page'.push = page.push
    <2>1. PushAnswer(s) => ~Mine(net[s])
      BY <1>1 DEF PushAnswer, OfDialog, InUse
    <2>. QED
      BY <1>3, <2>1 DEF Answered, PageAnswer, Loaded, PushAnswer, pageVars, TypeOK
  <1>4. CASE UNCHANGED page
    BY <1>4
  <1>5. CASE StartEdit \/ CancelEdit \/ AskConfirm \/ CancelConfirm \/ \E e \in Edits : Edit(e)
    BY <1>5 DEF StartEdit, CancelEdit, AskConfirm, CancelConfirm, Edit, Click, TypeOK
  <1>6. CASE SignOut \/ LeavePage \/ CloseDialog
    <2>1. CloseDialog => page'.push = "idle"
      BY DEF CloseDialog, TypeOK
    <2>. QED
      BY <1>6, <2>1 DEF SignOut, LeavePage, Unmount, FreshPage
  <1>7. CASE \/ (\E k \in Creds : SignIn(k)) \/ OpenPage \/ FleetStep \/ PageStep
             \/ ((Rotate \/ Progress) /\ UNCHANGED pageVars) \/ UNCHANGED vars
    BY <1>4, <1>7 DEF vars, pageVars, SignIn, OpenPage, FleetStep, PageStep, PageTick
  <1>. QED
    BY <1>2, <1>3, <1>5, <1>6, <1>7 DEF Next

LEMMA ServedStep ==
    ASSUME TypeOK, NetOK, DialogInv, DialogServed, [Next]_vars, TypeOK', DialogInv'
    PROVE  DialogServed'
  <1>1. timer' => page'.push = "success"
    BY DEF DialogInv, DraftFixed
  <1>2. ASSUME NEW s \in Slots, OfDialog(s)
        PROVE  DialogServed'
    <2>1. CASE Answered(s)
      <3>1. Reloading(s)' => ~timer'
        BY DEF DialogInv, CallsFit, Reloading
      <3>. QED
        BY <1>1, <1>2, <2>1, <3>1, DialogCallAnswered DEF DialogServed
    <2>2. CASE ~Answered(s)
      <3>1. CASE page'.push = "idle"
        BY <1>1, <3>1 DEF DialogServed
      <3>2. CASE OfDialog(s)' /\ net'[s] = net[s] /\ page'.push = page.push
        <4>1. ~timer' /\ (Pushing(s)' \/ Reloading(s)')
          BY <1>2, <3>2 DEF DialogInv, CallsFit, OfDialog, Pushing, Reloading
        <4>2. Pushing(s)' => page'.push = "pushing"
          BY DEF DialogInv, CallsFit, Pushing
        <4>3. Reloading(s)' => page'.push = "success"
          BY DEF DialogInv, CallsFit, Reloading
        <4>. QED
          BY <4>1, <4>2, <4>3 DEF DialogServed
      <3>. QED
        BY <1>2, <2>2, <3>1, <3>2, DialogCallMoves
    <2>. QED
      BY <2>1, <2>2
  <1>3. CASE timer
    BY <1>1, <1>3, TimerMoves DEF DialogServed
  <1>4. CASE page.push \in {"idle", "confirm"}
    <2>1. CASE page'.push \in {"idle", "confirm"}
      BY <1>1, <2>1 DEF DialogServed
    <2>2. ASSUME NEW s \in Slots, Pushing(s)' PROVE DialogServed'
      BY <1>1, <2>2 DEF DialogServed, DialogInv, CallsFit, Pushing
    <2>. QED
      BY <1>4, <2>1, <2>2, DialogStarts
  <1>. QED
    BY <1>2, <1>3, <1>4 DEF DialogServed, Pushing, Reloading, TypeOK

LEMMA Served == Spec => []DialogServed
  <1>1. Init => DialogServed
    BY DEF Init, FreshPage, DialogServed
  <1>2. /\ TypeOK /\ NetOK /\ DialogInv /\ (TypeOK /\ NetOK /\ DialogInv)'
        /\ DialogServed /\ [Next]_vars
        => DialogServed'
    BY ServedStep
  <1>. QED
    BY <1>1, <1>2, DialogInvariant, PTL DEF Spec

LEMMA TimerEnds ==
    [](TypeOK /\ NetOK /\ DialogInv /\ DialogServed) /\ [][Next]_vars /\ TimerFires
    => [](timer => <>(page.push = "idle"))
  <1>. DEFINE I == page.push = "idle"
  <1>1. /\ TypeOK /\ NetOK /\ DialogInv /\ DialogServed /\ [Next]_vars => (timer => timer' \/ I')
        /\ TypeOK /\ <<CloseDialog>>_vars => I'
        /\ DialogServed => (timer => Mounted /\ timer)
    BY TimerMoves DEF DialogServed, CloseDialog, TypeOK
  <1>2. I <=> page.push = "idle"
    OBVIOUS
  <1>. HIDE DEF I
  <1>. QED
    BY <1>1, <1>2, PTL DEF TimerFires

\* The call of the dialog is answered, and the dialog goes on from it.
LEMMA DialogCallEnds ==
    ASSUME NEW s \in Slots
    PROVE  /\ [](TypeOK /\ NetOK /\ DialogInv /\ DialogServed) /\ [][Next]_vars
           /\ AnswerComes(s) /\ TimerFires
           => [](Pushing(s) \/ Reloading(s) \/ timer => <>(page.push = "idle"))
  <1>. DEFINE P == Pushing(s)
              R == Reloading(s)
              I == page.push = "idle"
  <1>1. TypeOK /\ NetOK /\ DialogInv /\ DialogServed /\ [Next]_vars =>
            /\ P => P' \/ R' \/ I'
            /\ R => R' \/ timer' \/ I'
            /\ timer => timer' \/ I'
    <2>1. ASSUME TypeOK, NetOK, DialogInv, [Next]_vars, P \/ R
          PROVE  (P /\ (P' \/ R' \/ I')) \/ (R /\ (R' \/ timer' \/ I'))
      BY <2>1, DialogCallAnswered, DialogCallMoves DEF Pushing, Reloading
    <2>2. P => ~R
      BY DEF Pushing, Reloading
    <2>. QED
      BY <2>1, <2>2, TimerMoves DEF DialogServed
  <1>2. TypeOK /\ NetOK /\ DialogInv /\ DialogServed /\ <<Answered(s)>>_vars =>
            /\ P => (R' /\ ~P') \/ I'
            /\ R => timer' \/ I'
    BY DialogCallAnswered DEF Pushing, Reloading
  <1>3. TypeOK /\ NetOK /\ DialogInv /\ DialogServed =>
            /\ timer => Mounted /\ timer /\ ~P /\ ~R
            /\ P \/ R => InUse(s)
            /\ ~(P /\ R)
    BY DEF DialogServed, DialogInv, CallsFit, Pushing, Reloading, OfDialog
  <1>4. TypeOK /\ <<CloseDialog>>_vars => I'
    BY DEF CloseDialog, TypeOK
  <1>5. (P <=> Pushing(s)) /\ (R <=> Reloading(s)) /\ (I <=> page.push = "idle")
    OBVIOUS
  <1>. HIDE DEF P, R, I
  <1>. QED
    BY <1>1, <1>2, <1>3, <1>4, <1>5, PTL DEF AnswerComes, TimerFires

\* AgentDetail.tsx:58-73: the dialog of a push goes away, whatever becomes of
\* the push and of the reload after it, as long as calls come to an end and the
\* timer fires.
THEOREM DialogGoesAway == Spec /\ CallsEnd /\ TimerFires => DialogCloses
  <1>. DEFINE Run == [](TypeOK /\ NetOK /\ DialogInv /\ DialogServed) /\ [][Next]_vars
              Fires == []TimerFires
              Closed == page.push = "idle"
              Sent == page.push \in {"pushing", "success"}
              Called == \E s \in Slots : Pushing(s) \/ Reloading(s)
  <1>1. Run /\ Answering /\ Fires => (Called => <>Closed)
    <2>1. ASSUME NEW s \in Slots
          PROVE  Run /\ AnswerComes(s) /\ Fires => (Pushing(s) \/ Reloading(s) => <>Closed)
      BY DialogCallEnds, PTL
    <2>. HIDE DEF Run, Fires, Closed
    <2>. QED
      BY <2>1 DEF Answering
  <1>2. Run /\ TimerFires => [](timer => <>Closed)
    BY TimerEnds
  <1>3. DialogServed => (Sent => Called \/ timer)
    BY DEF DialogServed
  <1>4. (Closed <=> page.push = "idle") /\ (Sent <=> page.push \in {"pushing", "success"})
    OBVIOUS
  <1>5. Spec => Run
    BY DialogInvariant, Served, PTL DEF Spec
  <1>6. TimerFires => []Fires
    BY PTL DEF TimerFires
  <1>7. Run => []Run /\ []DialogServed
    BY PTL
  <1>. HIDE DEF Run, Fires, Called, Closed, Sent
  <1>. QED
    BY <1>1, <1>2, <1>3, <1>4, <1>5, <1>6, <1>7, PTL DEF CallsEnd, DialogCloses

-----------------------------------------------------------------------------
(* The screen of the fleet. That the polls made earlier all end takes an    *)
(* induction over the slots, which is for TLC; what is proved is where the  *)
(* screen gets and stays then, in whichever order the calls are answered.  *)

PollsAreMade == []<>~authed \/ []<><<FleetStep>>_vars

\* A poll of the session that is shown.
Polling(s) == InUse(s) /\ net[s].kind = "fleet" /\ Live(net[s])
Parts(c) == {c.agents, c.namespaces}

\* Neither of its two requests, or just one of them, has been answered.
Whole(s) == Polling(s) /\ net[s].agents = Waiting /\ net[s].namespaces = Waiting
Half(s) == Polling(s) /\ (net[s].agents = Waiting) # (net[s].namespaces = Waiting)

\* All that the polls of this session have heard so far is in results.
HeardOnly(results) ==
    \A s \in Slots : Polling(s) => Parts(net[s]) \subseteq results \cup {Waiting}

\* They were made with the credential that is kept.
OwnPolls == \A s \in Slots : Polling(s) => net[s].cred = credential

AnswersPoll(s) == \E part \in {"agents", "namespaces"} : FleetAnswer(s, part)
NoPoll(s) == InUse(s) => net[s].kind # "fleet"

\* What a step makes of a slot, while nobody signs in or out.
LEMMA SlotMoves ==
    ASSUME TypeOK, NetOK, [Next]_vars, authed, authed', NEW s \in Slots
    PROVE  /\ session' = session /\ credential' \in {credential, NoCred}
           /\ \/ net'[s] = net[s]
              \/ net[s] = Nothing /\ net'[s] = Call("fleet", session, Nothing)
              \/ NoPoll(s) /\ NoPoll(s)'
              \/ AnswersPoll(s)
  <1>0. DOMAIN net = Slots /\ session \in Nat /\ mount \in Nat
    BY BrowserConstants, ConsoleConstants DEF NetOK, TypeOK, BrowserTypeOK
  <1>1. CASE FleetStep
    BY <1>0, <1>1 DEF FleetStep, FleetTick, Free, tabVars
  <1>2. ASSUME NEW q \in Slots, NEW kind \in {"page", "push"}, NEW body \in Texts \cup {Nothing},
               Ask(q, kind, body)
        PROVE  /\ session' = session /\ credential' = credential
               /\ net'[s] = net[s] \/ (NoPoll(s) /\ NoPoll(s)')
    <2>1. Call(kind, mount, body).kind # "fleet"
      BY <1>0, CallIsCall
    <2>. QED
      BY <1>0, <1>2, <2>1 DEF Ask, Free, tabVars, NoPoll, InUse
  <1>3. CASE PageStep
    BY <1>2, <1>3 DEF PageStep, PageTick
  <1>4. ASSUME NEW q \in Slots, Confirm(q)
        PROVE  /\ session' = session /\ credential' = credential
               /\ net'[s] = net[s] \/ (NoPoll(s) /\ NoPoll(s)')
    BY <1>2, <1>4 DEF Confirm, TypeOK
  <1>5. ASSUME NEW q \in Slots, AnswersPoll(q)
        PROVE  /\ session' = session /\ credential' \in {credential, NoCred}
               /\ net'[s] = net[s] \/ AnswersPoll(s)
    BY <1>0, <1>5 DEF AnswersPoll, FleetAnswer, Heard
  <1>6. ASSUME NEW q \in Slots, PageAnswer(q)
        PROVE  /\ session' = session /\ credential' \in {credential, NoCred}
               /\ net'[s] = net[s] \/ (NoPoll(s) /\ NoPoll(s)')
    BY <1>0, <1>6 DEF PageAnswer, Heard, NoPoll, InUse
  <1>7. ASSUME NEW q \in Slots, PushAnswer(q)
        PROVE  /\ session' = session /\ credential' \in {credential, NoCred}
               /\ net'[s] = net[s] \/ (NoPoll(s) /\ NoPoll(s)')
    <2>1. PICK result \in Results(net[q]) :
              /\ Heard(result)
              /\ net' = [net EXCEPT ![q] = IF result \in Failures THEN Nothing
                                           ELSE Call("reload", net[q].owner, Nothing)]
      BY <1>7 DEF PushAnswer
    <2>2. net[q].owner \in Nat /\ net[q].kind = "push"
      BY <1>7 DEF PushAnswer, NetOK, CallType
    <2>3. Call("reload", net[q].owner, Nothing).kind = "reload"
      BY <2>2, CallIsCall
    <2>. QED
      BY <1>0, <2>1, <2>2, <2>3 DEF Heard, NoPoll, InUse
  <1>8. CASE UNCHANGED <<net, credential, session>>
    BY <1>8
  <1>9. ~SignOut /\ \A k \in Creds : ~SignIn(k)
    BY DEF SignOut, Logout, SignIn, Login
  <1>. QED
    BY <1>1, <1>3, <1>4, <1>5, <1>6, <1>7, <1>8, <1>9
    DEF Next, Answered, AnswersPoll, OpenPage, LeavePage, Rotate, Progress, Click, StartEdit,
        CancelEdit, AskConfirm, CancelConfirm, CloseDialog, Edit, vars, browserVars, tabVars

\* Only an answer to a poll changes what is shown.
LEMMA DataMoves ==
    ASSUME [Next]_vars, \A s \in Slots : ~AnswersPoll(s)
    PROVE  UNCHANGED dataVars
  BY DEF AnswersPoll, Next, vars, browserVars, dataVars, OpenPage, LeavePage, Rotate, Progress,
         Click, StartEdit, CancelEdit, AskConfirm, CancelConfirm, CloseDialog, Edit, SignIn,
         SignOut, Login, Logout, FleetStep, FleetTick, PageStep, PageTick, Ask, Confirm,
         Answered, PageAnswer, PushAnswer

Other(part) == IF part = "agents" THEN "namespaces" ELSE "agents"

\* What becomes of a poll and of the screen when one of its requests is answered.
LEMMA PollAnswered ==
    ASSUME TypeOK, NetOK, NEW s \in Slots, NEW part \in {"agents", "namespaces"},
           FleetAnswer(s, part)
    PROVE  \E result \in Results(net[s]) :
              /\ Heard(result) /\ result \in Versions \cup Failures
              /\ net[s] \in CallType /\ net[s].kind = "fleet" /\ net[s][part] = Waiting
              /\ DOMAIN net' = Slots /\ \A q \in Slots \ {s} : net'[q] = net[q]
              /\ net'[s] = IF net[s][Other(part)] = Waiting
                           THEN [net[s] EXCEPT ![part] = result] ELSE Nothing
              /\ ~Live(net[s]) => UNCHANGED dataVars
              /\ Live(net[s]) =>
                   LET o == net[s][Other(part)] IN
                   /\ result \in Failures /\ o \notin Failures => error' = result
                   /\ result \in Failures /\ o \in Failures => UNCHANGED dataVars
                   /\ result \in Versions /\ o = Waiting => UNCHANGED dataVars
                   /\ result \in Versions /\ o = result =>
                        error' = Nothing /\ shown' = [agents |-> result, namespaces |-> result]
  <1> PICK result \in Results(net[s]) :
        LET after == [net[s] EXCEPT ![part] = result]
            over == Waiting \notin {after.agents, after.namespaces}
        IN  /\ Heard(result)
            /\ Settle(net[s], after, result)
            /\ net' = [net EXCEPT ![s] = IF over THEN Nothing ELSE after]
    BY DEF FleetAnswer
  <1> DEFINE c == net[s]
             o == c[Other(part)]
             after == [c EXCEPT ![part] = result]
  <1>1. c \in CallType /\ c.kind = "fleet" /\ c[part] = Waiting /\ DOMAIN net = Slots
    BY DEF FleetAnswer, NetOK
  <1>2. result \in Versions \cup Failures /\ Versions \cap Failures = {}
        /\ Waiting \notin Versions \cup Failures
    BY ResultsAre, ResultsDiffer
  <1>3. Parts(c) = {Waiting, o} /\ Parts(after) = {result, o}
    BY <1>1 DEF CallType, Parts, Other
  <1>4. after.agents = result /\ after.namespaces = result <=> o = result
    BY <1>1, <1>2 DEF CallType, Other
  <1>. HIDE DEF after, o
  <1>5. net' = [net EXCEPT ![s] = IF Waiting \notin Parts(after) THEN Nothing ELSE after]
    BY DEF Parts, after
  <1>6. net'[s] = IF o = Waiting THEN after ELSE Nothing
    BY <1>1, <1>2, <1>3, <1>5
  <1>7. Settle(c, after, result)
    BY DEF after
  <1>8. /\ Complete(after) <=> result \in Versions /\ o \in Versions
        /\ GaveUp(after) <=> result \in Failures \/ o \in Failures
        /\ GaveUp(c) <=> o \in Failures
    BY <1>2, <1>3 DEF Complete, GaveUp, Parts
  <1>9. /\ ~Live(c) => UNCHANGED dataVars
        /\ Live(c) =>
             /\ result \in Failures /\ o \notin Failures => error' = result
             /\ result \in Failures /\ o \in Failures => UNCHANGED dataVars
             /\ result \in Versions /\ o = Waiting => UNCHANGED dataVars
             /\ result \in Versions /\ o = result =>
                  error' = Nothing /\ shown' = [agents |-> result, namespaces |-> result]
    BY <1>2, <1>4, <1>7, <1>8 DEF Settle, Show, GiveUp, dataVars
  <1>. QED
    BY <1>1, <1>2, <1>5, <1>6, <1>9 DEF o, after

LEMMA FleetCallIsThere == ASSUME NEW c \in CallType, c.kind = "fleet" PROVE c # Nothing
  <1>1. Replies \subseteq Nat \cup {Waiting, Refused, Throttled, Broken}
    BY DEF Replies, Versions, Failures
  <1>. QED
    BY <1>1, ConsoleConstants DEF CallType, Texts

\* Any other step leaves a poll as it is, or makes a new one.
LEMMA PollKept ==
    ASSUME TypeOK, NetOK, [Next]_vars, authed, authed', NEW s \in Slots, ~AnswersPoll(s)
    PROVE  \/ net'[s] = net[s] /\ (Polling(s)' <=> Polling(s))
           \/ ~Polling(s) /\ ~Polling(s)'
           \/ ~Polling(s) /\ Parts(net'[s]) = {Waiting} /\ net'[s].cred = credential
  <1>1. CASE net'[s] = net[s]
    BY <1>1, SlotMoves DEF Polling, InUse, Live
  <1>2. CASE net[s] = Nothing /\ net'[s] = Call("fleet", session, Nothing)
    BY <1>2 DEF Polling, InUse, Call, Parts
  <1>3. CASE NoPoll(s) /\ NoPoll(s)'
    BY <1>3 DEF NoPoll, Polling
  <1>. QED
    BY <1>1, <1>2, <1>3, SlotMoves

\* The poll that a tick makes.
LEMMA PollMade ==
    ASSUME TypeOK, NetOK, FleetStep
    PROVE  \E s \in Slots : Whole(s)' /\ net'[s].cred = credential'
  <1>1. PICK s \in Slots : FleetTick(s)
    BY DEF FleetStep
  <1>2. session \in Nat
    BY BrowserConstants DEF TypeOK, BrowserTypeOK
  <1>3. net'[s] = Call("fleet", session, Nothing) /\ UNCHANGED <<authed, session, credential>>
    BY <1>1 DEF FleetTick, tabVars, NetOK
  <1>4. Call("fleet", session, Nothing) # Nothing
    BY <1>2, CallIsThere
  <1>. QED
    BY <1>1, <1>3, <1>4 DEF Whole, Polling, InUse, Live, Call, FleetTick

-----------------------------------------------------------------------------
(* The operator's credential works.                                        *)

Steady == authed /\ credential \in valid
Settled == UNCHANGED <<table, failures>>

GoodPolls == HeardOnly({table}) /\ OwnPolls
Correct == error = Nothing /\ shown = [agents |-> table, namespaces |-> table]

LEMMA GoodAnswer ==
    ASSUME TypeOK, NetOK, failures \in Nat, GoodPolls, Steady, Steady', Settled,
           NEW s \in Slots, AnswersPoll(s)
    PROVE  /\ Polling(s)' => /\ Parts(net'[s]) \subseteq {table, Waiting}
                             /\ net'[s].cred = credential'
           /\ Whole(s) => Half(s)'
           /\ Half(s) => Correct'
           /\ Correct => Correct'
  <1>1. PICK part \in {"agents", "namespaces"} : FleetAnswer(s, part)
    BY DEF AnswersPoll
  <1>2. PICK result \in Results(net[s]) :
              /\ Heard(result) /\ result \in Versions \cup Failures
              /\ net[s] \in CallType /\ net[s].kind = "fleet" /\ net[s][part] = Waiting
              /\ net'[s] = IF net[s][Other(part)] = Waiting
                           THEN [net[s] EXCEPT ![part] = result] ELSE Nothing
              /\ ~Live(net[s]) => UNCHANGED dataVars
              /\ Live(net[s]) =>
                   LET o == net[s][Other(part)] IN
                   /\ result \in Failures /\ o \notin Failures => error' = result
                   /\ result \in Failures /\ o \in Failures => UNCHANGED dataVars
                   /\ result \in Versions /\ o = Waiting => UNCHANGED dataVars
                   /\ result \in Versions /\ o = result =>
                        error' = Nothing /\ shown' = [agents |-> result, namespaces |-> result]
    BY <1>1, PollAnswered
  <1>3. /\ table \in Versions /\ Waiting \notin Versions /\ Waiting # table
        /\ NoCred \notin valid /\ table' = table
    BY BrowserConstants DEF TypeOK, BrowserTypeOK, Versions, Settled
  <1>5. UNCHANGED <<authed, session, credential>> /\ InUse(s)
    <2>1. credential' \in {credential, NoCred} /\ UNCHANGED <<authed, session, valid>>
      BY <1>2 DEF Heard
    <2>. QED
      BY <1>1, <1>3, <2>1 DEF FleetAnswer, InUse, Steady
  <1>4. Live(net[s]) => result = table
    <2>1. Live(net[s]) => net[s].cred \in valid
      BY <1>2, <1>5 DEF GoodPolls, OwnPolls, Polling, Steady
    <2>2. result # Broken
      BY <1>2 DEF Heard, Settled
    <2>. QED
      BY <2>1, <2>2 DEF Results
  <1>. DEFINE o == net[s][Other(part)]
  <1>6. Parts(net[s]) = {Waiting, o}
    BY <1>2 DEF Parts, Other
  <1>7. CASE ~Live(net[s])
    <2>1. ~Polling(s) /\ ~Polling(s)'
      BY <1>2, <1>5, <1>7 DEF Polling, Live, InUse, CallType
    <2>. QED
      BY <1>2, <1>3, <1>7, <2>1 DEF Whole, Half, Correct, dataVars
  <1>8. CASE Live(net[s]) /\ o = Waiting
    <2>1. /\ net'[s] \in CallType /\ net'[s].kind = "fleet" /\ net'[s].owner = net[s].owner
          /\ net'[s].cred = net[s].cred
      BY <1>2, <1>8 DEF CallType, Replies
    <2>2. net'[s][part] = table /\ net'[s][Other(part)] = Waiting
      BY <1>2, <1>4, <1>8 DEF CallType, Other
    <2>3. /\ Parts(net'[s]) = {table, Waiting}
          /\ (net'[s].agents = Waiting) # (net'[s].namespaces = Waiting)
      BY <1>3, <2>2 DEF Parts, Other
    <2>4. Half(s)'
      BY <1>5, <1>8, <2>1, <2>3, FleetCallIsThere DEF Half, Polling, InUse, Live
    <2>5. ~Half(s)
      BY <1>2, <1>8 DEF Half, Other
    <2>6. UNCHANGED dataVars
      BY <1>2, <1>3, <1>4, <1>8
    <2>7. net'[s].cred = credential'
      BY <1>2, <1>5, <1>8, <2>1 DEF GoodPolls, OwnPolls, Polling
    <2>. QED
      BY <1>3, <2>3, <2>4, <2>5, <2>6, <2>7 DEF Correct, dataVars
  <1>9. CASE Live(net[s]) /\ o # Waiting
    <2>1. Polling(s)
      BY <1>2, <1>5, <1>9 DEF Polling
    <2>2. o = table
      BY <1>6, <1>9, <2>1 DEF GoodPolls, HeardOnly
    <2>3. Correct'
      BY <1>2, <1>3, <1>4, <1>9, <2>2 DEF Correct
    <2>4. ~Whole(s) /\ ~Polling(s)'
      BY <1>2, <1>9 DEF Whole, Other, Polling, InUse
    <2>. QED
      BY <2>3, <2>4
  <1>. QED
    BY <1>7, <1>8, <1>9

LEMMA SteadyStep ==
    ASSUME TypeOK, NetOK, failures \in Nat, GoodPolls, Steady, Steady', Settled, [Next]_vars
    PROVE  /\ GoodPolls'
           /\ Correct => Correct'
           /\ \A s \in Slots : /\ Whole(s) => Whole(s)' \/ Half(s)'
                               /\ Half(s) => Half(s)' \/ Correct'
                               /\ AnswersPoll(s) => /\ Whole(s) => Half(s)'
                                                    /\ Half(s) => Correct'
  <1>0. table' = table /\ authed /\ authed'
    BY DEF Settled, Steady
  <1>1. ASSUME NEW s \in Slots, ~AnswersPoll(s)
        PROVE  /\ Polling(s)' => /\ Parts(net'[s]) \subseteq {table, Waiting}
                                 /\ net'[s].cred = credential'
               /\ Whole(s) => Whole(s)'
               /\ Half(s) => Half(s)'
    <2>0. credential' = credential
      <3>1. NoCred \notin valid'
        BY NextTypes, BrowserConstants DEF TypeOK, BrowserTypeOK
      <3>. QED
        BY <1>0, <1>1, <3>1, SlotMoves DEF Steady
    <2>1. CASE net'[s] = net[s] /\ (Polling(s)' <=> Polling(s))
      BY <2>0, <2>1 DEF GoodPolls, HeardOnly, OwnPolls, Whole, Half
    <2>2. CASE ~Polling(s)
      BY <1>0, <1>1, <2>0, <2>2, PollKept DEF Whole, Half
    <2>. QED
      BY <1>0, <1>1, <2>1, <2>2, PollKept
  <1>2. GoodPolls'
    BY <1>0, <1>1, GoodAnswer DEF GoodPolls, HeardOnly, OwnPolls
  <1>3. Correct => Correct'
    <2>1. CASE \A s \in Slots : ~AnswersPoll(s)
      BY <1>0, <2>1, DataMoves DEF Correct, dataVars
    <2>. QED
      BY <2>1, GoodAnswer
  <1>. QED
    BY <1>1, <1>2, <1>3, GoodAnswer

LEMMA FailuresCount == Spec => [](failures \in Nat)
  <1>. DEFINE C == failures \in Nat
  <1>1. Init => C
    BY DEF Init, BrowserInit
  <1>2. C /\ [Next]_vars => C'
    <2>1. ASSUME NEW s \in Slots, Answered(s) PROVE failures' \in {failures, failures + 1}
      BY <2>1 DEF Answered, PageAnswer, PushAnswer, FleetAnswer, Heard
    <2>2. ASSUME NEW s \in Slots, Confirm(s) PROVE failures' = failures
      BY <2>2 DEF Confirm, Ask, serverVars
    <2>3. CASE FleetStep \/ PageStep
      BY <2>3 DEF FleetStep, FleetTick, PageStep, PageTick, Ask, serverVars
    <2>4. CASE \/ \E k \in Creds : SignIn(k)
               \/ SignOut \/ OpenPage \/ LeavePage \/ Rotate \/ Progress
      BY <2>4 DEF SignIn, SignOut, Login, Logout, OpenPage, LeavePage, Rotate, Progress,
                  browserVars, serverVars
    <2>5. CASE \/ StartEdit \/ CancelEdit \/ AskConfirm \/ CancelConfirm \/ CloseDialog
               \/ \E e \in Edits : Edit(e)
      BY <2>5 DEF StartEdit, CancelEdit, AskConfirm, CancelConfirm, CloseDialog, Edit, Click,
                  browserVars, serverVars
    <2>. QED
      BY <2>1, <2>2, <2>3, <2>4, <2>5 DEF Next, vars, browserVars, serverVars
  <1>3. C <=> failures \in Nat
    OBVIOUS
  <1>. HIDE DEF C
  <1>. QED
    BY <1>1, <1>2, <1>3, PTL DEF Spec

\* An answer to a call of the fleet answers its poll.
LEMMA PollIsAnswered ==
    ASSUME NEW s \in Slots, Whole(s) \/ Half(s)
    PROVE  InUse(s) /\ (Answered(s) => AnswersPoll(s))
  BY DEF Whole, Half, Polling, Answered, PageAnswer, PushAnswer, AnswersPoll

\* Nothing else changes in the end: neither the table, nor does a call fail.
ServerSettles == <>[][Settled]_vars
EarlierPollsEnd == []<>(GoodPolls \/ ~Steady)

SteadyRun == /\ [](TypeOK /\ NetOK /\ failures \in Nat /\ Steady /\ GoodPolls)
             /\ [][Next]_vars /\ [][Settled]_vars

LEMMA SteadyPollEnds ==
    ASSUME NEW s \in Slots
    PROVE  SteadyRun /\ AnswerComes(s) => (Whole(s) => <>Correct)
  <1>. DEFINE Inv == TypeOK /\ NetOK /\ failures \in Nat /\ Steady /\ GoodPolls
  <1>1. Inv /\ Inv' /\ [Next]_vars /\ [Settled]_vars =>
            /\ Whole(s) => Whole(s)' \/ Half(s)'
            /\ Half(s) => Half(s)' \/ Correct'
            /\ <<Answered(s)>>_vars => /\ Whole(s) => Half(s)'
                                       /\ Half(s) => Correct'
    BY SteadyStep, PollIsAnswered DEF vars, browserVars, serverVars, Settled
  <1>2. Whole(s) \/ Half(s) => InUse(s)
    BY PollIsAnswered
  <1>. HIDE DEF Inv
  <1>3. SteadyRun => []Inv /\ [][Next]_vars /\ [][Settled]_vars
    BY DEF SteadyRun, Inv
  <1>. QED
    BY <1>1, <1>2, <1>3, PTL DEF AnswerComes

LEMMA SteadyPollsEnd ==
    SteadyRun /\ Answering => ((\E s \in Slots : Whole(s)) => <>Correct)
  BY SteadyPollEnds DEF Answering

\* useFleetData.ts:38-49: in whichever order polls are answered, the screen
\* ends up with the fleet as it is and no error, once the credential works and
\* the table stays; provided that calls end and polls are made.
THEOREM FleetGetsShown ==
    Spec /\ CallsEnd /\ PollsAreMade /\ EarlierPollsEnd /\ ServerSettles => FleetIsShown
  <1>. DEFINE Inv == TypeOK /\ NetOK /\ failures \in Nat
              Called == \E s \in Slots : Whole(s)
  <1>1. Inv /\ GoodPolls /\ Steady /\ Steady' /\ [Next]_vars /\ [Settled]_vars =>
            GoodPolls' /\ (Correct => Correct')
    BY SteadyStep DEF vars, browserVars, serverVars, Settled
  <1>2. Inv /\ <<FleetStep>>_vars => Called'
    BY PollMade
  <1>3. SteadyRun /\ Answering => (Called => <>Correct)
    BY SteadyPollsEnd
  <1>4. Spec => []Inv
    <2>1. Spec => [](TypeOK /\ NetOK)
      BY InitTypes, NextTypes, PTL DEF Spec
    <2>. QED
      BY <2>1, FailuresCount, PTL
  <1>5. SteadyRun <=> [](Inv /\ Steady /\ GoodPolls) /\ [][Next]_vars /\ [][Settled]_vars
    BY PTL DEF SteadyRun
  <1>6. Steady => authed
    BY DEF Steady
  <1>. HIDE DEF Inv, Called
  <1>7. Spec /\ CallsEnd /\ PollsAreMade /\ EarlierPollsEnd /\ ServerSettles
        => (<>[]Steady => <>[]Correct)
    BY <1>1, <1>2, <1>3, <1>4, <1>5, <1>6, PTL
    DEF Spec, CallsEnd, PollsAreMade, EarlierPollsEnd, ServerSettles
  <1>. QED
    BY <1>7 DEF FleetIsShown, Steady, Correct

-----------------------------------------------------------------------------
(* The operator's credential does not work.                                *)

Out == authed /\ credential \notin valid
SameCredential == UNCHANGED credential

\* The polls of this session are refused.
RefusedPolls == HeardOnly(Failures) /\ OwnPolls
Told == error \in Failures

\* The credential may be cleared, once and for all.
LEMMA OutCredential ==
    ASSUME TypeOK, [Next]_vars, Out, Out'
    PROVE  credential' \in {credential, NoCred}
  BY DEF Out, Next, vars, browserVars, tabVars, OpenPage, LeavePage, Rotate, Progress, Click,
         StartEdit, CancelEdit, AskConfirm, CancelConfirm, CloseDialog, Edit, SignIn, SignOut,
         Login, Logout, FleetStep, FleetTick, PageStep, PageTick, Ask, Confirm, Answered,
         PageAnswer, PushAnswer, FleetAnswer, Heard

\* What a poll comes to that is refused.
LEMMA RefusedAnswer ==
    ASSUME TypeOK, NetOK, RefusedPolls, Out, SameCredential, NEW s \in Slots, AnswersPoll(s)
    PROVE  /\ Polling(s)' => /\ Parts(net'[s]) \subseteq Failures \cup {Waiting}
                             /\ net'[s].cred = credential'
           /\ Whole(s) => Told'
           /\ Told => Told'
  <1>1. PICK part \in {"agents", "namespaces"} : FleetAnswer(s, part)
    BY DEF AnswersPoll
  <1>2. PICK result \in Results(net[s]) :
              /\ Heard(result) /\ result \in Versions \cup Failures
              /\ net[s] \in CallType /\ net[s].kind = "fleet" /\ net[s][part] = Waiting
              /\ net'[s] = IF net[s][Other(part)] = Waiting
                           THEN [net[s] EXCEPT ![part] = result] ELSE Nothing
              /\ ~Live(net[s]) => UNCHANGED dataVars
              /\ Live(net[s]) =>
                   LET o == net[s][Other(part)] IN
                   /\ result \in Failures /\ o \notin Failures => error' = result
                   /\ result \in Failures /\ o \in Failures => UNCHANGED dataVars
    BY <1>1, PollAnswered
  <1>3. Waiting \notin Failures
    BY ResultsDiffer
  <1>4. UNCHANGED <<authed, session>> /\ InUse(s)
    BY <1>1, <1>2 DEF Heard, FleetAnswer, InUse
  <1>. DEFINE o == net[s][Other(part)]
  <1>5. Parts(net[s]) = {Waiting, o}
    BY <1>2 DEF Parts, Other
  <1>6. CASE ~Live(net[s])
    <2>1. ~Polling(s) /\ ~Polling(s)'
      BY <1>2, <1>4, <1>6 DEF Polling, Live, InUse, CallType
    <2>. QED
      BY <1>2, <1>6, <2>1 DEF Whole, Told, dataVars
  <1>7. CASE Live(net[s])
    <2>1. Polling(s) /\ net[s].cred = credential /\ o \in Failures \cup {Waiting}
      BY <1>2, <1>4, <1>5, <1>7 DEF Polling, RefusedPolls, HeardOnly, OwnPolls
    <2>2. result \in Failures
      BY <2>1 DEF Results, Out, Failures
    <2>3. o = Waiting => Told'
      BY <1>2, <1>3, <1>7, <2>2 DEF Told
    <2>4. o \in Failures => UNCHANGED dataVars
      BY <1>2, <1>7, <2>2
    <2>5. Whole(s) => o = Waiting
      BY DEF Whole, Other
    <2>6. Polling(s)' => net'[s] = [net[s] EXCEPT ![part] = result] /\ o = Waiting
      BY <1>2 DEF Polling, InUse
    <2>7. Polling(s)' => /\ Parts(net'[s]) \subseteq Failures \cup {Waiting}
                         /\ net'[s].cred = credential'
      BY <1>2, <2>1, <2>2, <2>6 DEF CallType, Parts, Other, SameCredential
    <2>. QED
      BY <2>1, <2>3, <2>4, <2>5, <2>7 DEF Told, dataVars
  <1>. QED
    BY <1>6, <1>7

LEMMA RefusedStep ==
    ASSUME TypeOK, NetOK, RefusedPolls, Out, Out', [Next]_vars, SameCredential
    PROVE  /\ RefusedPolls'
           /\ Told => Told'
           /\ \A s \in Slots : Whole(s) => (Whole(s)' /\ ~AnswersPoll(s)) \/ Told'
  <1>1. ASSUME NEW s \in Slots, ~AnswersPoll(s)
        PROVE  /\ Polling(s)' => /\ Parts(net'[s]) \subseteq Failures \cup {Waiting}
                                 /\ net'[s].cred = credential'
               /\ Whole(s) => Whole(s)'
    <2>1. CASE net'[s] = net[s] /\ (Polling(s)' <=> Polling(s))
      BY <2>1 DEF RefusedPolls, HeardOnly, OwnPolls, Whole, SameCredential
    <2>2. CASE ~Polling(s)
      BY <1>1, <2>2, PollKept DEF Whole, Out, SameCredential
    <2>. QED
      BY <1>1, <2>1, <2>2, PollKept DEF Out
  <1>2. RefusedPolls'
    BY <1>1, RefusedAnswer DEF RefusedPolls, HeardOnly, OwnPolls, Failures
  <1>3. Told => Told'
    <2>1. CASE \A s \in Slots : ~AnswersPoll(s)
      BY <2>1, DataMoves DEF Told, Failures, dataVars
    <2>. QED
      BY <2>1, RefusedAnswer
  <1>. QED
    BY <1>1, <1>2, <1>3, RefusedAnswer

PollsBeforeEnd == []<>(RefusedPolls \/ ~Out)

RefusedRun == /\ [](TypeOK /\ NetOK /\ Out /\ RefusedPolls)
              /\ [][Next]_vars /\ [][SameCredential]_vars

LEMMA RefusedIsTold ==
    ASSUME NEW s \in Slots
    PROVE  RefusedRun /\ AnswerComes(s) => (Whole(s) => <>Told)
  <1>1. TypeOK /\ NetOK /\ RefusedPolls /\ Out /\ Out' /\ [Next]_vars /\ [SameCredential]_vars =>
            (Whole(s) => /\ Whole(s)' \/ Told'
                         /\ <<Answered(s)>>_vars => Told')
    BY RefusedStep, PollIsAnswered DEF SameCredential, vars, browserVars, tabVars
  <1>2. Whole(s) => InUse(s)
    BY PollIsAnswered
  <1>. QED
    BY <1>1, <1>2, PTL DEF RefusedRun, AnswerComes

\* While it does not work, the credential changes at most once.
LEMMA CredentialStays ==
    [](TypeOK /\ Out) /\ [][Next]_vars => <>[][SameCredential]_vars
  <1>. DEFINE N == credential = NoCred
  <1>1. TypeOK /\ Out /\ Out' /\ [Next]_vars =>
            /\ N => N'
            /\ (N <=> N') => SameCredential
    BY OutCredential DEF SameCredential
  <1>. HIDE DEF N
  <1>. QED
    BY <1>1, PTL

\* client.ts:75-85: an operator whose credential no longer works comes to see an
\* error, and no answer to any poll wipes it away; provided that calls end and
\* polls are made.
THEOREM RefusalGetsShown ==
    Spec /\ CallsEnd /\ PollsAreMade /\ PollsBeforeEnd => RefusalIsShown
  <1>. DEFINE Inv == TypeOK /\ NetOK
              SomeWhole == \E s \in Slots : Whole(s)
  <1>1. RefusedRun /\ Answering => (SomeWhole => <>Told)
    BY RefusedIsTold DEF Answering
  <1>2. Inv /\ <<FleetStep>>_vars => SomeWhole'
    BY PollMade
  <1>3. Inv /\ RefusedPolls /\ Out /\ Out' /\ [Next]_vars /\ [SameCredential]_vars
        => RefusedPolls' /\ (Told => Told')
    BY RefusedStep DEF SameCredential, vars, browserVars, tabVars
  <1>4. Out => authed
    BY DEF Out
  <1>5. Spec => []Inv
    BY InitTypes, NextTypes, PTL DEF Spec
  <1>6. RefusedRun <=> [](Inv /\ Out /\ RefusedPolls) /\ [][Next]_vars /\ [][SameCredential]_vars
    BY PTL DEF RefusedRun
  <1>7. [](Inv /\ Out) /\ [][Next]_vars => <>[][SameCredential]_vars
    BY CredentialStays, PTL
  <1>. HIDE DEF Inv, SomeWhole
  <1>8. Spec /\ CallsEnd /\ PollsAreMade /\ PollsBeforeEnd => (<>[]Out => <>[]Told)
    BY <1>1, <1>2, <1>3, <1>4, <1>5, <1>6, <1>7, PTL
    DEF Spec, CallsEnd, PollsAreMade, PollsBeforeEnd
  <1>. QED
    BY <1>8 DEF RefusalIsShown, Out, Told
=============================================================================
