--------------------------- MODULE DelegatedTokens ---------------------------
(***************************************************************************)
(* The token provider of one simulated user (api/simulated-user-cba.ts):   *)
(* callers of one scope share an acquisition, acquisitions of all scopes   *)
(* share one certificate sign-in in a browser, and whoever got a sign-in   *)
(* that was made for another scope goes on silently.                       *)
(***************************************************************************)
EXTENDS Naturals, FiniteSets

CONSTANTS
  Scopes,        \* the scopes that are allowed
  Callers,       \* the operations that ask
  MaxAsks        \* bound: questions in a behaviour

VARIABLES
  asks,         \* caller -> the scope it waits for, or NoScope
  got,          \* caller -> [asked, told]: told is the scope its token is for, or "failed"
  acquisition,  \* #acquisitions: scope -> "none", "silent", "checking", "joined"
  signIn,       \* #interactiveAcquisition: "none", "browser", "code", "checking"
  signInScope,  \* the scope it is made for
  handled,      \* the parts of the sign-in page dealt with
  account,      \* #account is known
  asked         \* questions so far

tokenVars == <<asks, got, acquisition, signIn, signInScope, handled, account, asked>>

NoScope == "none"
NoAnswer == [asked |-> NoScope, told |-> NoScope]
PageParts == {"account", "username", "certificate", "options"}

-----------------------------------------------------------------------------
(* Acquisitions. *)

\* With an account silently, else through the browser: the sign-in under way or a new one.
Joins(s) ==
  /\ acquisition' = [acquisition EXCEPT ![s] = "joined"]
  /\ IF signIn = "none"
     THEN signIn' = "browser" /\ signInScope' = s /\ handled' = {}
     ELSE UNCHANGED <<signIn, signInScope, handled>>

GetToken(c, s) ==
  /\ asks[c] = NoScope /\ asked < MaxAsks /\ asked' = asked + 1
  /\ asks' = [asks EXCEPT ![c] = s]
  /\ IF acquisition[s] # "none"
     THEN UNCHANGED <<acquisition, signIn, signInScope, handled>>
     ELSE IF account
          THEN /\ acquisition' = [acquisition EXCEPT ![s] = "silent"]
               /\ UNCHANGED <<signIn, signInScope, handled>>
          ELSE Joins(s)
  /\ UNCHANGED <<got, account>>

\* A scope that is not configured.
Refuses(c) ==
  /\ asks[c] = NoScope
  /\ got' = [got EXCEPT ![c] = [asked |-> NoScope, told |-> "failed"]]
  /\ UNCHANGED <<asks, acquisition, signIn, signInScope, handled, account, asked>>

Tell(outcome) ==  \* scope -> what those who wait for it are told, or NoScope
  /\ got' = [c \in Callers |->
       IF asks[c] # NoScope /\ outcome[asks[c]] # NoScope
       THEN [asked |-> asks[c], told |-> outcome[asks[c]]] ELSE got[c]]
  /\ asks' = [c \in Callers |->
       IF asks[c] # NoScope /\ outcome[asks[c]] # NoScope THEN NoScope ELSE asks[c]]

Removed_OnSuccessOnly(s, told) == IF told = "failed" THEN "joined" ELSE "none"
\* A settled acquisition leaves the map, whatever came of it.
Removed(s, told) == "none"

Ends(s, told) ==
  /\ acquisition' = [acquisition EXCEPT ![s] = Removed(s, told)]
  /\ Tell([x \in Scopes |-> IF x = s THEN told ELSE NoScope])

\* acquireTokenSilent: a token to check, another error, or a sign-in is required.
SilentAnswers(s) ==
  /\ acquisition[s] = "silent"
  /\ \/ /\ acquisition' = [acquisition EXCEPT ![s] = "checking"]
        /\ UNCHANGED <<asks, got, signIn, signInScope, handled>>
     \/ Ends(s, "failed") /\ UNCHANGED <<signIn, signInScope, handled>>
     \/ Joins(s) /\ UNCHANGED <<asks, got>>
  /\ UNCHANGED <<account, asked>>

\* The scopes granted and the identity behind the token.
SilentChecked(s) ==
  /\ acquisition[s] = "checking"
  /\ Ends(s, s) \/ Ends(s, "failed")
  /\ UNCHANGED <<signIn, signInScope, handled, account, asked>>

-----------------------------------------------------------------------------
(* The sign-in. *)

AfterSignIn_TokenForAll(s, ok) == IF ok THEN signInScope ELSE "failed"
\* What an acquisition that waited for the sign-in ends with; NoScope: it goes on silently.
AfterSignIn(s, ok) ==
  IF ~ok THEN "failed" ELSE IF s = signInScope THEN signInScope ELSE NoScope

SignInEnds(ok) ==
  LET outcome == [s \in Scopes |-> IF acquisition[s] = "joined" THEN AfterSignIn(s, ok) ELSE NoScope] IN
  /\ signIn' = "none" /\ signInScope' = NoScope /\ handled' = {}
  /\ account' = (account \/ ok)
  /\ acquisition' = [s \in Scopes |->
       IF acquisition[s] # "joined" THEN acquisition[s]
       ELSE IF outcome[s] = NoScope THEN "silent" ELSE Removed(s, outcome[s])]
  /\ Tell(outcome)
  /\ UNCHANGED asked

\* completeCertificateSignIn: each part of the page is dealt with once; it
\* ends with a code, with an error, or at its deadline.
SignInPage ==
  /\ signIn = "browser"
  /\ \/ /\ \E p \in PageParts \ handled : handled' = handled \cup {p}
        /\ UNCHANGED <<signIn, signInScope, account, acquisition, asks, got, asked>>
     \/ signIn' = "code" /\ UNCHANGED <<signInScope, handled, account, acquisition, asks, got, asked>>
     \/ SignInEnds(FALSE)

\* acquireTokenByCode.
CodeRedeemed ==
  /\ signIn = "code"
  /\ \/ signIn' = "checking" /\ UNCHANGED <<signInScope, handled, account, acquisition, asks, got, asked>>
     \/ SignInEnds(FALSE)

SignInChecked ==
  /\ signIn = "checking"
  /\ SignInEnds(TRUE) \/ SignInEnds(FALSE)

Init ==
  /\ asks = [c \in Callers |-> NoScope] /\ got = [c \in Callers |-> NoAnswer]
  /\ acquisition = [s \in Scopes |-> "none"]
  /\ signIn = "none" /\ signInScope = NoScope /\ handled = {}
  /\ account = FALSE /\ asked = 0

Next ==
  \/ \E c \in Callers : Refuses(c) \/ \E s \in Scopes : GetToken(c, s)
  \/ \E s \in Scopes : SilentAnswers(s) \/ SilentChecked(s)
  \/ SignInPage \/ CodeRedeemed \/ SignInChecked

Spec == Init /\ [][Next]_tokenVars

\* Of what a caller waits for only the sign-in page has a deadline (timeoutMs).
Fairness == WF_tokenVars(SignInPage)

FairSpec == Spec /\ Fairness

-----------------------------------------------------------------------------
(* Properties. *)

\* The variables have their types.
TypeOK ==
  /\ asks \in [Callers -> Scopes \cup {NoScope}]
  /\ got \in [Callers -> [asked : Scopes \cup {NoScope}, told : Scopes \cup {NoScope, "failed"}]]
  /\ acquisition \in [Scopes -> {"none", "silent", "checking", "joined"}]
  /\ signIn \in {"none", "browser", "code", "checking"} /\ signInScope \in Scopes \cup {NoScope}
  /\ handled \subseteq PageParts /\ account \in BOOLEAN /\ asked \in 0..MaxAsks

\* Whoever shares a sign-in or an acquisition with others gets a token for the
\* scope it asked for (#acquireAccessToken), and nobody is left to wait for an
\* acquisition that is over.
TokenForOwnScope ==
  \A c \in Callers :
    /\ got[c].told \in {got[c].asked, "failed"}
    /\ asks[c] # NoScope => acquisition[asks[c]] # "none"

\* The services answer, with a success or an error: the code does not see to it, since
\* neither MSAL's calls nor the fetch of #verifyIdentity has a timeout or a signal.
ServicesAnswer ==
  /\ WF_tokenVars(CodeRedeemed) /\ WF_tokenVars(SignInChecked)
  /\ \A s \in Scopes : WF_tokenVars(SilentAnswers(s)) /\ WF_tokenVars(SilentChecked(s))

\* While the services answer every question is answered: no acquisition stays behind in
\* the map, none waits for a sign-in that is not under way, and those of other scopes
\* hold none up for ever (#acquisitions, #interactiveAcquisition).
CallersAnswered ==
  ServicesAnswer => \A c \in Callers : asks[c] # NoScope ~> asks[c] = NoScope

=============================================================================
