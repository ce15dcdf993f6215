------------------------------ MODULE WebSession ------------------------------
(***************************************************************************)
(* The session of a browser (auth-context.tsx, storage.ts, lib/api.ts):    *)
(* the tabs of a browser share one localStorage with an access and a       *)
(* refresh token; each tab boots, logs in and out, sends the calls of its  *)
(* page, and renews the access token once when a call is refused with 401. *)
(*                                                                         *)
(* The api is module Accounts: a login, a logout or a renewal of a tab is  *)
(* a request in a slot of the tab.  A call that only reads is answered at  *)
(* once: the access token is not looked up anywhere, and may expire at any *)
(* moment.  An access token is named by the session it was made for.       *)
(***************************************************************************)
EXTENDS Accounts

CONSTANTS Tab, Other,   \* Other: slots of other devices and administrators
          OtherOps,     \* by slot, what they may ask
          MaxSessions, MaxReloads

Flow(t) == <<t, "flow">>
Renewal(t) == <<t, "renewal">>
Call == {"me", "page"}

Slot == Tab \X {"flow", "renewal"}

ASSUME SessionAssumption ==
    /\ Req = Slot \cup Other
    /\ Slot \cap Other = {}
    /\ \A r \in Other : OtherOps[r] \subseteq Operation

VARIABLES store,    \* localStorage: [access, refresh]
          tab,      \* by tab: [user (session shown), flow, renewing, reloads]
          call,     \* by tab and kind of call: [at, token]
          stray     \* history: the store was written by the answer to a renewal
                    \* of a refresh token that was no longer there
vars == <<accountVars, store, tab, call, stray>>

Empty == [access |-> Null, refresh |-> Null]
NoCall == [at |-> "off", token |-> Null]
Booting == [user |-> Null, flow |-> "boot", renewing |-> FALSE, reloads |-> 0]
SetTab(t, user, flow) == tab' = [tab EXCEPT ![t].user = user, ![t].flow = flow]
ClearAccess == store' = [store EXCEPT !.access = Null] /\ stray' = FALSE  \* faulty
\* authStorage.clear
Clear == store' = Empty /\ stray' = FALSE
Start0(r, op) == Start(r, op) /\ UNCHANGED <<account, session, reset, cut>>
Recycle(r) == req' = [req EXCEPT ![r] = Quiet]

\* The request interceptor: the token that is in the store now.
Sent(token) == [at |-> "sent", token |-> token]

-----------------------------------------------------------------------------
(* Boot, login and logout: auth-context.tsx *)

\* The effect of the provider: /auth/me if there is an access token.
Boot(t) ==
    /\ tab[t].flow = "boot"
    /\ IF store.access = Null
       THEN /\ SetTab(t, Null, "off")
            /\ UNCHANGED call
       ELSE /\ SetTab(t, Null, "booting")
            /\ call' = [call EXCEPT ![t].me = Sent(store.access)]
    /\ UNCHANGED <<accountVars, store, stray>>

\* A login from the login page.  The page is shown while the tab boots, too: a
\* login pressed before /auth/me has answered is left out.
LogIn(t) ==
    /\ tab[t].flow = "off" /\ tab[t].user = Null
    /\ Cardinality(Ids) < MaxSessions
    /\ Start0(Flow(t), [kind |-> "login", pw |-> account.pw])
    /\ SetTab(t, Null, "login")
    /\ UNCHANGED <<store, call, stray>>

\* The tokens go into the store, then /auth/me is asked; the answer may be lost.
LoginAnswered(t) ==
    /\ tab[t].flow = "login" /\ Answered(Flow(t))
    /\ Recycle(Flow(t))
    /\ LET i == req[Flow(t)].id
       IN  \/ /\ At(Flow(t), "done")
              /\ store' = [access |-> i, refresh |-> i]
              /\ stray' = FALSE
              /\ call' = [call EXCEPT ![t].me = Sent(i)]
              /\ SetTab(t, Null, "entering")
           \/ SetTab(t, Null, "off") /\ UNCHANGED <<store, stray, call>>
    /\ UNCHANGED <<account, session, reset, cut>>

\* The session of the store is revoked, if there is one; the store is emptied
\* after the answer, whatever it is.
LogOut(t) ==
    /\ tab[t].flow = "off" /\ tab[t].user # Null
    /\ IF store.refresh = Null
       THEN /\ Clear /\ SetTab(t, Null, "off")
            /\ UNCHANGED accountVars
       ELSE /\ Start0(Flow(t), [kind |-> "logout", id |-> store.refresh])
            /\ SetTab(t, tab[t].user, "logout")
            /\ UNCHANGED <<store, stray>>
    /\ UNCHANGED call
LogoutAnswered(t) ==
    /\ tab[t].flow = "logout" /\ Answered(Flow(t))
    /\ Recycle(Flow(t))
    /\ Clear /\ SetTab(t, Null, "off")
    /\ UNCHANGED <<account, session, reset, cut, call>>

-----------------------------------------------------------------------------
(* Calls and the renewal of the access token: lib/api.ts *)

\* A page asks for something.
PageCall(t) ==
    /\ tab[t].user # Null /\ call[t].page.at = "off"
    /\ call' = [call EXCEPT ![t].page = Sent(store.access)]
    /\ UNCHANGED <<accountVars, store, tab, stray>>

Answerable(t, c) == call[t][c].at \in {"sent", "again"}

\* A call has its answer: only /auth/me changes more than its page.
Served(t, c) ==
    /\ Answerable(t, c) /\ call[t][c].token # Null
    /\ c = "me" => ~account.gone
    /\ call' = [call EXCEPT ![t][c] = NoCall]
    /\ IF c = "me" THEN SetTab(t, call[t][c].token, "off") ELSE UNCHANGED tab
    /\ UNCHANGED <<accountVars, store, stray>>

\* An error goes to the caller: a boot empties the store, a login does not.
Broken(t, c) ==
    /\ call' = [call EXCEPT ![t][c] = NoCall]
    /\ IF c = "me" THEN SetTab(t, Null, "off") ELSE UNCHANGED tab
    /\ IF c = "me" /\ tab[t].flow = "booting" THEN Clear
       ELSE UNCHANGED <<store, stray>>

RefusedAlways(t, c) ==                                         \* faulty
    /\ Answerable(t, c)
    /\ IF store.refresh = Null /\ ~tab[t].renewing
       THEN Broken(t, c) /\ UNCHANGED accountVars
       ELSE /\ call' = [call EXCEPT ![t][c].at = "waiting"]
            /\ IF tab[t].renewing THEN UNCHANGED <<accountVars, tab>>
               ELSE /\ Start0(Renewal(t), [kind |-> "refresh", id |-> store.refresh])
                    /\ tab' = [tab EXCEPT ![t].renewing = TRUE]
            /\ UNCHANGED <<store, stray>>
\* A 401: the first time the call waits for the renewal of its tab, which it
\* begins if there is none and the store has a refresh token.
Refused(t, c) ==
    /\ Answerable(t, c)
    /\ IF \/ call[t][c].at = "again"
          \/ store.refresh = Null /\ ~tab[t].renewing
       THEN Broken(t, c) /\ UNCHANGED accountVars
       ELSE /\ call' = [call EXCEPT ![t][c].at = "waiting"]
            /\ IF tab[t].renewing THEN UNCHANGED <<accountVars, tab>>
               ELSE /\ Start0(Renewal(t), [kind |-> "refresh", id |-> store.refresh])
                    /\ tab' = [tab EXCEPT ![t].renewing = TRUE]
            /\ UNCHANGED <<store, stray>>

\* Any other error, or no answer.
Lost(t, c) ==
    /\ Answerable(t, c)
    /\ Broken(t, c)
    /\ UNCHANGED accountVars

Waiting(t, c) == call[t][c].at = "waiting"

\* The new token goes into the store, whatever happened to it meanwhile, and
\* the calls that wait are sent again with it.
Renewed(t) ==
    /\ tab[t].renewing /\ At(Renewal(t), "done")
    /\ LET i == Op(Renewal(t)).id
       IN  /\ store' = [store EXCEPT !.access = i]
           /\ stray' = (store.refresh # i)
           /\ call' = [call EXCEPT ![t] = [c \in Call |->
                           IF Waiting(t, c) THEN [at |-> "again", token |-> i]
                                            ELSE call[t][c]]]
    /\ tab' = [tab EXCEPT ![t].renewing = FALSE]
    /\ Recycle(Renewal(t))
    /\ UNCHANGED <<account, session, reset, cut>>

\* A renewal refused, or without an answer: the store is emptied, the calls
\* that wait fail.
NotRenewed(t) ==
    /\ tab[t].renewing /\ Answered(Renewal(t))
    /\ Clear
    /\ call' = [call EXCEPT ![t] = [c \in Call |->
                    IF Waiting(t, c) THEN NoCall ELSE call[t][c]]]
    /\ tab' = [tab EXCEPT ![t].renewing = FALSE,
                          ![t].user = IF Waiting(t, "me") THEN Null ELSE @,
                          ![t].flow = IF Waiting(t, "me") THEN "off" ELSE @]
    /\ Recycle(Renewal(t))
    /\ UNCHANGED <<account, session, reset, cut>>

\* The tab is closed and opened again: its calls are no longer waited for.
Reload(t) ==
    /\ tab[t].reloads < MaxReloads
    /\ tab' = [tab EXCEPT ![t] = [Booting EXCEPT !.reloads = tab[t].reloads + 1]]
    /\ call' = [call EXCEPT ![t] = [c \in Call |-> NoCall]]
    /\ UNCHANGED <<accountVars, store, stray>>
Unheard(t) ==
    /\ \E r \in {Flow(t), Renewal(t)} :
           /\ Answered(r)
           /\ IF r = Flow(t) THEN tab[t].flow \notin {"login", "logout"}
                             ELSE ~tab[t].renewing
           /\ Recycle(r)
    /\ UNCHANGED <<account, session, reset, cut, store, tab, call, stray>>

-----------------------------------------------------------------------------
Init ==
    /\ AccountsInit
    /\ store = Empty
    /\ tab = [t \in Tab |-> Booting]
    /\ call = [t \in Tab |-> [c \in Call |-> NoCall]]
    /\ stray = FALSE

Handling(r) == Statement(r) /\ UNCHANGED <<store, tab, call, stray>>
FlowStep(t) == Boot(t) \/ LoginAnswered(t) \/ LogoutAnswered(t)
RenewalStep(t) == Renewed(t) \/ NotRenewed(t)
CallStep(t, c) == Served(t, c) \/ Refused(t, c) \/ Lost(t, c)
Next ==
    \/ \E t \in Tab : \/ FlowStep(t) \/ RenewalStep(t) \/ Unheard(t)
                      \/ \E c \in Call : CallStep(t, c)
                      \/ LogIn(t) \/ LogOut(t) \/ PageCall(t) \/ Reload(t)
    \/ \E r \in Req : Handling(r)
    \/ \E r \in Req : Abort(r) /\ UNCHANGED <<store, tab, call, stray>>
    \/ \E r \in Other : \E op \in OtherOps[r] :
           Start0(r, op) /\ UNCHANGED <<store, tab, call, stray>>
    \/ LockExpires /\ UNCHANGED <<store, tab, call, stray>>

\* The api answers, and the browser handles what it hears.
Fairness ==
    /\ \A r \in Req : WF_vars(Handling(r))
    /\ \A t \in Tab : /\ WF_vars(FlowStep(t)) /\ WF_vars(RenewalStep(t))
                      /\ WF_vars(Unheard(t))
                      /\ \A c \in Call : WF_vars(CallStep(t, c))
Spec == Init /\ [][Next]_vars /\ Fairness

-----------------------------------------------------------------------------
(* Properties *)

\* The two tokens of the store are of one session, whatever the tabs did,
\* unless the answer to a renewal came after its refresh token had left the
\* store: it is then the access token of a session logged out or replaced.
StoreIsOneSession == store.access # store.refresh => stray

\* Every call of a page is answered once and for all, and a boot, a login and
\* a logout end, however often tokens are refused.
CallsEnd ==
    \A t \in Tab : /\ call[t].page.at # "off" ~> call[t].page.at = "off"
                  /\ tab[t].flow # "off" ~> tab[t].flow = "off"

\* After a renewal that fails the interface goes back to /login.
BackToLogin ==
    \A t \in Tab : tab[t].user # Null /\ store = Empty ~> tab[t].user = Null

TypeOK ==
    /\ AccountsTypeOK
    /\ store \in [access : Nat, refresh : Nat]
    /\ tab \in [Tab -> [user : Nat, renewing : BOOLEAN, reloads : Nat,
                        flow : {"boot", "booting", "off", "login", "entering",
                                "logout"}]]
    /\ call \in [Tab -> [Call -> [at : {"off", "sent", "waiting", "again"},
                                 token : Nat]]]
    /\ stray \in BOOLEAN

\* The slot of a tab's renewals serves nothing else.
RenewalsInv ==
    \A t \in Tab : At(Renewal(t), "idle") \/ Op(Renewal(t)).kind = "refresh"

\* The inductive invariant behind the safety theorems.
SessionInv ==
    TypeOK /\ AccountsInv /\ RenewalsInv /\ StoreIsOneSession
=============================================================================
