------------------------------ MODULE Console ------------------------------
(***************************************************************************)
(* The page of one agent (ui/src/components/AgentDetail.tsx) in the tab:   *)
(* it polls the agent, and lets the operator edit the effective config and *)
(* push it, in a dialog of its own. It shares the tab's credential with    *)
(* the poll of the fleet, and is mounted and unmounted by App.             *)
(*                                                                         *)
(* A text is the version the server showed, or one of Edits. The three     *)
(* requests of reload count as one call. The draft of an editor that is    *)
(* closed, which the next edit overwrites, is forgotten; metrics, history  *)
(* and its selection, which other parts of the page display, and the       *)
(* message of a failed push are left out.                                  *)
(***************************************************************************)
EXTENDS Browser

CONSTANTS
    Edits,                   \* texts an operator types
    MaxMounts, MaxPushes     \* bounds

ASSUME ConsoleConstants ==
    /\ MaxMounts \in Nat
    /\ Nothing \notin [kind : {"fleet", "push", "reload"}, owner : Nat,
                       cred : Creds \cup {NoCred}, body : Versions \cup Edits \cup {Nothing},
                       agents : Nat \cup {Waiting, Refused, Throttled, Broken},
                       namespaces : Nat \cup {Waiting, Refused, Throttled, Broken}]

VARIABLES
    open,      \* App's selectedAgentUid is set
    mount,     \* which instance of the page is the current one
    page,      \* its state
    timer,     \* its timer that closes the dialog runs
    asked,     \* history: the text the dialog was opened for
    accepted,  \* history: the last text of this page that the server took
    sends      \* its calls of pushConfig, up to their bound

pageVars == <<open, mount, page, timer, asked, accepted, sends>>
vars == <<browserVars, pageVars>>

Texts == Versions \cup Edits

FreshPage == [text |-> Nothing, error |-> Nothing, editing |-> FALSE, draft |-> Nothing,
              push |-> "idle"]

TypeOK ==
    /\ BrowserTypeOK
    /\ open \in BOOLEAN /\ mount \in 0 .. MaxMounts /\ timer \in BOOLEAN
    /\ page \in [text : Versions \cup {Nothing}, error : Errors, editing : BOOLEAN,
                 draft : Texts \cup {Nothing},
                 push : {"idle", "confirm", "pushing", "success"}]
    /\ asked \in Texts \cup {Nothing}
    /\ accepted \in Texts \cup {Nothing}

Init ==
    /\ BrowserInit
    /\ open = FALSE /\ mount = 0 /\ page = FreshPage /\ timer = FALSE
    /\ asked = Nothing /\ accepted = Nothing
    /\ sends = 0

\* Instances that are gone get no answers and no ticks.
Mounted == authed /\ open
Mine(c) == Mounted /\ c.owner = mount

\* What there is to see and click unless the page shows an error or nothing.
Usable == Mounted /\ page.error = Nothing /\ page.text # Nothing

Unmount ==
    /\ page' = FreshPage /\ timer' = FALSE
    /\ asked' = Nothing /\ accepted' = Nothing
    /\ sends' = 0

-----------------------------------------------------------------------------
(* App.                                                                    *)

OpenPage ==
    /\ authed /\ ~open /\ mount < MaxMounts
    /\ open' = TRUE /\ mount' = mount + 1
    /\ UNCHANGED <<browserVars, page, timer, asked, accepted, sends>>

LeavePage ==
    /\ Mounted
    /\ open' = FALSE
    /\ Unmount
    /\ UNCHANGED <<browserVars, mount>>

\* The sign-in page takes the place of all others; which agent is selected
\* stays, and its page is back, anew, after the next login.
SignOut == Logout /\ Unmount /\ UNCHANGED <<open, mount>>

SignIn(k) ==
    /\ Login(k)
    /\ IF open THEN mount < MaxMounts /\ mount' = mount + 1 ELSE UNCHANGED mount
    /\ UNCHANGED <<open, page, timer, asked, accepted, sends>>

-----------------------------------------------------------------------------
(* reload, of the interval or after a push.                                *)

Ask(s, kind, body) ==
    /\ Free(s)
    /\ net' = [net EXCEPT ![s] = Call(kind, mount, body)]
    /\ UNCHANGED <<tabVars, dataVars, serverVars>>

PageTick(s) ==
    /\ Mounted
    /\ Ask(s, "page", Nothing)
    /\ UNCHANGED pageVars

\* Faulty: the editor follows what is loaded.
LoadedIntoDraft(result) == [page EXCEPT !.text = result, !.draft = result]

Loaded(result) == [page EXCEPT !.text = result]

\* The answer is on the screen; an error stays there as long as the page does.
PageAnswer(s) ==
    /\ net[s] # Nothing /\ net[s].kind \in {"page", "reload"}
    /\ \E result \in Results(net[s]) :
        /\ Heard(result)
        /\ page' = IF ~Mine(net[s]) THEN page
                   ELSE IF result \in Versions THEN Loaded(result)
                   ELSE [page EXCEPT !.error = result]
    /\ timer' = (timer \/ (Mine(net[s]) /\ net[s].kind = "reload"))
    /\ net' = [net EXCEPT ![s] = Nothing]
    /\ UNCHANGED <<dataVars, open, mount, asked, accepted, sends>>

-----------------------------------------------------------------------------
(* The dialog.                                                             *)

\* An operation of the page's state alone.
Click(next) ==
    /\ Usable
    /\ page' = next
    /\ UNCHANGED <<browserVars, open, mount, timer, accepted, sends>>

StartEdit ==
    /\ ~page.editing
    /\ Click([page EXCEPT !.draft = page.text, !.editing = TRUE, !.push = "idle"])
    /\ UNCHANGED asked

\* Faulty: the text is read-only only when nothing is edited.
EditAnytime(e) ==
    /\ page.editing
    /\ Click([page EXCEPT !.draft = e])
    /\ UNCHANGED asked

Edit(e) ==
    /\ page.editing /\ page.push = "idle"
    /\ Click([page EXCEPT !.draft = e])
    /\ UNCHANGED asked

CancelEdit ==
    /\ page.editing /\ page.push = "idle"
    /\ Click([page EXCEPT !.editing = FALSE, !.draft = Nothing])
    /\ UNCHANGED asked

AskConfirm ==
    /\ page.editing /\ page.push = "idle"
    /\ Click([page EXCEPT !.push = "confirm"])
    /\ asked' = page.draft

CancelConfirm ==
    /\ page.editing /\ page.push = "confirm"
    /\ Click([page EXCEPT !.push = "idle"])
    /\ asked' = Nothing

\* confirmPush up to its await.
Confirm(s) ==
    /\ Usable /\ page.editing /\ page.push = "confirm"
    /\ sends < MaxPushes
    /\ sends' = sends + 1
    /\ page' = [page EXCEPT !.push = "pushing"]
    /\ Ask(s, "push", page.draft)
    /\ UNCHANGED <<open, mount, timer, asked, accepted>>

\* Faulty: a failed push leaves the dialog as it is.
AfterPushHanging(result) ==
    IF result \in Failures THEN page ELSE [page EXCEPT !.push = "success"]

AfterPush(result) ==
    IF result \in Failures THEN [page EXCEPT !.push = "idle"]
    ELSE [page EXCEPT !.push = "success"]

\* Whether the server has taken a push with this result; a failed one it may
\* have taken all the same.
Taken(result) == CASE result \in {Refused, Throttled} -> {FALSE}
                   [] result = Broken -> BOOLEAN
                   [] result \in Versions -> {TRUE}

\* The answer of a push. After a success the page is reloaded, also if it is
\* gone.
PushAnswer(s) ==
    /\ net[s] # Nothing /\ net[s].kind = "push"
    /\ \E result \in Results(net[s]) :
        /\ Heard(result)
        /\ \E took \in Taken(result) :
            accepted' = IF took /\ Mine(net[s]) THEN net[s].body ELSE accepted
        /\ page' = IF Mine(net[s]) THEN AfterPush(result) ELSE page
        /\ asked' = IF Mine(net[s]) /\ result \in Failures THEN Nothing ELSE asked
        /\ net' = [net EXCEPT ![s] = IF result \in Failures THEN Nothing
                                     ELSE Call("reload", net[s].owner, Nothing)]
    /\ UNCHANGED <<dataVars, open, mount, timer, sends>>

\* The timer of confirmPush.
CloseDialog ==
    /\ Mounted /\ timer
    /\ timer' = FALSE
    /\ page' = [page EXCEPT !.push = "idle", !.editing = FALSE, !.draft = Nothing]
    /\ asked' = Nothing
    /\ UNCHANGED <<browserVars, open, mount, accepted, sends>>

-----------------------------------------------------------------------------
FleetStep == (\E s \in Slots : FleetTick(s)) /\ UNCHANGED pageVars
PageStep == \E s \in Slots : PageTick(s)

Answered(s) ==
    \/ \E part \in {"agents", "namespaces"} : FleetAnswer(s, part)
         /\ UNCHANGED pageVars
    \/ PageAnswer(s)
    \/ PushAnswer(s)

Next ==
    \/ \E k \in Creds : SignIn(k)
    \/ SignOut \/ OpenPage \/ LeavePage
    \/ (Rotate \/ Progress) /\ UNCHANGED pageVars
    \/ FleetStep \/ PageStep
    \/ \E s \in Slots : Answered(s) \/ Confirm(s)
    \/ StartEdit \/ CancelEdit \/ AskConfirm \/ CancelConfirm \/ CloseDialog
    \/ \E e \in Edits : Edit(e)

Spec == Init /\ [][Next]_vars
-----------------------------------------------------------------------------
(* Properties. *)

InUse(s) == net[s] # Nothing

\* useFleetData.ts:21-24, "doesn't fire one doomed, credential-less request":
\* while signed in there is a credential to send, as long as none was refused;
\* except by the reload that follows a push whose operator has signed out.
CredentiallessOnlyAfterRefusal ==
    ~refused =>
        /\ authed = (credential # NoCred)
        /\ \A s \in Slots : InUse(s) /\ net[s].kind # "reload" => net[s].cred # NoCred

\* useFleetData.ts:35-54: the screen changes only with the answer to a poll of
\* the session it is shown in, however late the answers of earlier ones are.
\* (Until the first such answer it stays as the session before has left it.)
AnswersOfThisSession ==
    [][<<shown, error>>' # <<shown, error>> =>
        /\ authed
        /\ \E s \in Slots : /\ InUse(s) /\ net'[s] # net[s]
                            /\ net[s].kind = "fleet" /\ net[s].owner = session]_vars

\* AgentDetail.tsx:143-166: the server is sent only what the operator was asked
\* to confirm, although the page is polled meanwhile; and the page says it was
\* sent only if the server has it.
SentAsConfirmed ==
    /\ page.push = "pushing" => page.draft = asked
    /\ page.push = "success" => page.draft = asked /\ asked = accepted

\* What an operator may do to a draft: type, close the editor, go elsewhere.
OperatorActs == (\E e \in Edits : Edit(e)) \/ CancelEdit \/ LeavePage \/ SignOut

\* AgentDetail.tsx:47-73: a draft is not lost, nor its text changed, by a poll,
\* a failed push or a late timer: unless the operator does it, the editor stays
\* open with the same text until the server has that text.
DraftIsKept ==
    [][page.editing =>
        \/ page'.editing /\ page'.draft = page.draft
        \/ OperatorActs
        \/ page.push = "success" /\ page.draft = accepted]_vars

-----------------------------------------------------------------------------
(* Liveness: the browser's timers fire, and a call comes to an end.        *)

Fairness ==
    /\ SF_vars(FleetStep) /\ SF_vars(PageStep)
    /\ \A s \in Slots : WF_vars(Answered(s))
    /\ WF_vars(CloseDialog)

FairSpec == Spec /\ Fairness

\* client.ts:75-85: an operator whose credential no longer works comes to see an
\* error, and no poll wipes it away: not one without a credential, nor one that
\* is answered 429, nor a late answer to one that was still accepted. (Which
\* error it is may change from poll to poll.)
RefusalIsShown ==
    <>[](authed /\ credential \notin valid) => <>[](error \in Failures)

\* useFleetData.ts:38-49: although answers of overlapping polls may come in any
\* order, and the two requests of a poll may see different tables, the screen
\* ends up showing the fleet as it is, and no error.
FleetIsShown ==
    <>[](authed /\ credential \in valid)
    => <>[](error = Nothing /\ shown = [agents |-> table, namespaces |-> table])

\* AgentDetail.tsx:58-73: the dialog of a push goes away, whatever becomes of
\* the push and of the reload after it.
DialogCloses == page.push \in {"pushing", "success"} ~> page.push = "idle"
=============================================================================
