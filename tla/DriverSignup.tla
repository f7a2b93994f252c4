---------------------------- MODULE DriverSignup ----------------------------
(***************************************************************************)
(* The sign-up screens of the driver app and the skip guard that keeps a   *)
(* driver from screens ahead of the step the server has.  Screens are      *)
(* numbered in their order: 0 personal info, 1 documents, 2 background     *)
(* check, 3 vehicle, 4 bank account, 5 complete.  The handlers behind the  *)
(* screens are those of DriverOnboarding; here a handler is the step and   *)
(* the status it leaves.                                                   *)
(*                                                                         *)
(* A form's request goes on when its screen is left, and so does what      *)
(* comes after its answer: the next screen is pushed wherever the driver   *)
(* is by then, signed out or not. The guard's fetch is given up instead.   *)
(***************************************************************************)
EXTENDS FaultBudget

CONSTANT MaxSignIns   \* bound: sign-ins and launches

VARIABLES
  place,       \* the screen, or Auth, Otp, Welcome, Home
  checking,    \* the guard's fetch for this screen is in flight
  sending,     \* per form, its request: "none", "sent", or "done" when it leads on
  uploaded,    \* the upload screen marks every document as uploaded
  connected,   \* the bank screen has opened Stripe
  account,     \* the server's view: step as a screen, status, check ordered
  tokens,      \* the app holds tokens
  signIns

suVars == <<place, checking, sending, uploaded, connected, account, tokens, signIns>>
Screens == 0..5
Forms == 0..3
AuthPlace == 10
OtpPlace == 11
WelcomePlace == 12
HomePlace == 13
OnScreen == place < AuthPlace
Approved == account.status = "approved"

SignupTypeOK ==
  /\ place \in Screens \cup {AuthPlace, OtpPlace, WelcomePlace, HomePlace}
  /\ checking \in BOOLEAN /\ uploaded \in BOOLEAN /\ connected \in BOOLEAN
  /\ sending \in [Forms -> {"none", "sent", "done"}] /\ tokens \in BOOLEAN
  /\ account \in [step : Screens, status : {"pending", "under_review", "approved", "declined"},
                  ordered : BOOLEAN]
  /\ signIns \in 0..MaxSignIns

SignupInit ==
  /\ place = AuthPlace /\ checking = FALSE /\ sending = [f \in Forms |-> "none"]
  /\ uploaded = FALSE /\ connected = FALSE /\ tokens = FALSE /\ signIns = 0
  /\ account = [step |-> 0, status |-> "pending", ordered |-> FALSE]

\* resolveDriverRoute
Route == IF Approved THEN HomePlace ELSE account.step

\* A new screen starts with its own state, and the guard asks anew.
Show(p) ==
  /\ place' = p /\ checking' = (p \in Screens)
  /\ uploaded' = FALSE /\ connected' = FALSE

-----------------------------------------------------------------------------
SendOtp ==
  /\ place = AuthPlace /\ signIns < MaxSignIns
  /\ Show(OtpPlace) /\ signIns' = signIns + 1
  /\ UNCHANGED <<sending, account, tokens, faults>>

\* A wrong code keeps the screen; a new account, or a failing look at the
\* profile, goes to the welcome screen.
VerifyOtp ==
  /\ place = OtpPlace /\ tokens' = TRUE
  /\ \/ signIns > 1 /\ Show(Route) /\ NoFault
     \/ signIns = 1 /\ Show(WelcomePlace) /\ NoFault
     \/ signIns > 1 /\ Show(WelcomePlace) /\ Fault
  /\ UNCHANGED <<sending, account, signIns>>

GetStarted ==
  /\ place = WelcomePlace /\ Show(0)
  /\ UNCHANGED <<sending, account, tokens, signIns, faults>>

\* Back goes to the screen before, or to the welcome screen.
GoBack ==
  /\ OnScreen /\ Show(IF place > 0 THEN place - 1 ELSE WelcomePlace)
  /\ UNCHANGED <<sending, account, tokens, signIns, faults>>

SignupSignOut ==
  /\ OnScreen /\ Show(AuthPlace) /\ tokens' = FALSE
  /\ UNCHANGED <<sending, account, signIns, faults>>

\* A launch, or a deep link, opens a screen; a launch with a profile routes.
ColdStart ==
  /\ OnScreen /\ signIns < MaxSignIns /\ signIns' = signIns + 1
  /\ Show(IF tokens THEN Route ELSE AuthPlace) /\ sending' = [f \in Forms |-> "none"]
  /\ UNCHANGED <<account, tokens, faults>>

DeepLink(s) ==
  /\ place # AuthPlace /\ place # OtpPlace /\ s \in Screens /\ s # place
  /\ signIns < MaxSignIns /\ signIns' = signIns + 1
  /\ Show(s)
  /\ UNCHANGED <<sending, account, tokens, faults>>

-----------------------------------------------------------------------------
(* The forms: a request, the server's answer, and the next screen          *)

Sends == tokens /\ place \in Forms /\ sending[place] = "none" /\ ~uploaded
Becomes(f, got) == sending' = [sending EXCEPT ![f] = got]

Submit ==
  /\ Sends /\ Becomes(place, "sent")
  /\ UNCHANGED <<place, checking, uploaded, connected, account, tokens, signIns, faults>>

Accepts(f) ==
  CASE f = 0 -> account.status = "pending"
    [] f = 2 -> ~account.ordered
    [] OTHER -> TRUE

\* Personal info sets the step back to the documents; uploads and vehicle move
\* it only from their own step.
Answered(f) ==
  CASE f = 0 -> [account EXCEPT !.step = 1]
    [] f = 1 /\ account.step = 1 -> [account EXCEPT !.step = 2, !.status = "under_review"]
    [] f = 2 -> [account EXCEPT !.step = 3, !.ordered = TRUE]
    [] f = 3 /\ account.step = 3 -> [account EXCEPT !.step = 4]
    [] OTHER -> account

\* A refusal is an alert, except for the uploads: their confirmation is not
\* looked at, and the documents count as uploaded.
AfterRefusal(f) == IF f = 1 THEN "done" ELSE "none"

FormAnswered(f) ==
  /\ sending[f] = "sent"
  /\ IF Accepts(f) THEN account' = Answered(f) /\ Becomes(f, "done")
                   ELSE UNCHANGED account /\ Becomes(f, AfterRefusal(f))
  /\ UNCHANGED <<place, checking, uploaded, connected, tokens, signIns, faults>>

\* No answer, or that of an error.
FormLost(f) ==
  /\ sending[f] = "sent" /\ (Becomes(f, "none") \/ Becomes(f, AfterRefusal(f))) /\ Fault
  /\ UNCHANGED <<place, checking, uploaded, connected, account, tokens, signIns>>

FormDone(f) ==
  /\ sending[f] = "done" /\ Becomes(f, "none")
  /\ IF f # 1 /\ place # f + 1 THEN Show(f + 1)
     ELSE uploaded' = (uploaded \/ (f = 1 /\ place = 1)) /\ UNCHANGED <<place, checking, connected>>
  /\ UNCHANGED <<account, tokens, signIns, faults>>

LeaveUploads ==
  /\ place = 1 /\ uploaded /\ Show(2)
  /\ UNCHANGED <<sending, account, tokens, signIns, faults>>

\* The bank is linked at Stripe; the screen never asks whether it was.
ConnectBank ==
  /\ place = 4 /\ ~connected /\ connected' = TRUE
  /\ UNCHANGED <<place, checking, sending, uploaded, account, tokens, signIns, faults>>

FinishSetup ==
  /\ place = 4 /\ connected /\ Show(5)
  /\ UNCHANGED <<sending, account, tokens, signIns, faults>>

CheckStatus ==
  /\ place = 5 /\ tokens /\ Approved /\ Show(HomePlace)
  /\ UNCHANGED <<sending, account, tokens, signIns, faults>>

\* Decisions taken elsewhere.
Decided(status) ==
  /\ account.ordered /\ account.status \notin {"approved", "declined"}
  /\ account' = [account EXCEPT !.status = status,
                                !.step = IF status = "approved" THEN 5 ELSE @]
  /\ UNCHANGED <<place, checking, sending, uploaded, connected, tokens, signIns, faults>>

-----------------------------------------------------------------------------
(* The skip guard                                                          *)

(* mutant: one screen ahead is let through *)
TooFar == place > account.step + 1
Ahead == place > account.step

\* Asked once per screen; the answer may be old by the time it is used, and
\* nothing asks again.
GuardAnswers ==
  /\ OnScreen /\ checking /\ tokens
  /\ IF ~Approved /\ Ahead THEN Show(account.step)
     ELSE checking' = FALSE /\ UNCHANGED <<place, uploaded, connected>>
  /\ UNCHANGED <<sending, account, tokens, signIns, faults>>

\* Without tokens the fetch is refused, and nobody looks.
GuardFails ==
  /\ OnScreen /\ checking /\ checking' = FALSE /\ (IF tokens THEN Fault ELSE NoFault)
  /\ UNCHANGED <<place, sending, uploaded, connected, account, tokens, signIns>>

-----------------------------------------------------------------------------
FormStep(f) == FormAnswered(f) \/ FormDone(f)
SignupNext ==
  \/ SendOtp \/ VerifyOtp \/ GetStarted \/ GoBack \/ SignupSignOut \/ ColdStart
  \/ Submit \/ LeaveUploads \/ \E f \in Forms : FormStep(f) \/ FormLost(f)
  \/ ConnectBank \/ FinishSetup \/ CheckStatus \/ GuardAnswers \/ GuardFails
  \/ \E s \in Screens : DeepLink(s)
  \/ \E status \in {"approved", "declined"} : Decided(status)

-----------------------------------------------------------------------------
\* "No skipping ahead": a driver who is signed in and on a screen ahead of the
\* server's step gets off it, through deep links, upload answers nobody read, answers
\* that come after their screen was left and steps that went back, unless the guard's
\* fetch fails (onboarding/_layout.tsx).
NoSkippingAhead ==
  (tokens /\ OnScreen /\ ~Approved /\ place > account.step)
    ~> (~tokens \/ ~OnScreen \/ Approved \/ place <= account.step \/ faults > 0)
=============================================================================
