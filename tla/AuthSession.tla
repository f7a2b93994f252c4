----------------------------- MODULE AuthSession -----------------------------
(***************************************************************************)
(* Signing in with a one-time code and staying signed in: auth-service     *)
(* (OtpService, TokenService) and one phone of either app (PhoneAuth-      *)
(* Screen or DriverAuthScreen, the API client, the token store).           *)
(*                                                                         *)
(* A pair of tokens is a number; its refresh token is a key in Redis.  The *)
(* threads of the phone change the same session: two API requests, each of *)
(* which refreshes on a 401 with whatever token the store then holds, the  *)
(* sign-in and the sign-out.  SecureStore is changed first, the three      *)
(* values taken as one, and then the store of the app.                     *)
(***************************************************************************)
EXTENDS FaultBudget, FiniteSets

CONSTANTS
  Requests,      \* API requests the app has under way at a time
  MaxPairs,      \* bound: token pairs issued
  MaxCodes,      \* bound: codes sent
  MaxAttempts,   \* MAX_ATTEMPTS
  SendLimit      \* SEND_LIMIT

ASSUME SessionAssumption ==
  /\ MaxPairs \in Nat /\ MaxCodes \in Nat /\ MaxAttempts \in Nat /\ SendLimit \in Nat
  /\ "signIn" \notin Requests /\ "signOut" \notin Requests

VARIABLES
  otpKey,        \* otp:<phone>: the code, 0 if there is none, and its attempts
  otpSends,      \* otp:send_limit:<phone>
  codes,         \* codes made so far
  codeSending,       \* the resend under way
  pairs,         \* pairs issued so far
  stale,         \* pairs whose access token expired
  refreshKeys,   \* refresh:<user>:<token>
  held,          \* the pair in the store of the app, 0 if signed out
  disk,          \* SecureStore
  thread,        \* what each thread is doing
  contended,     \* two threads changed the session at the same time
  misses,        \* wrong guesses at the newest code
  crossed        \* a guess at an older code was counted after the newest came

asVars == <<otpKey, otpSends, codes, codeSending, pairs, stale, refreshKeys, held, disk, thread,
            contended, misses, crossed>>
otpVars == <<otpKey, otpSends, codes, codeSending, misses, crossed>>
Pairs == 1..MaxPairs
Threads == Requests \cup {"signIn", "signOut"}
Resting == [at |-> "idle", pair |-> 0, guess |-> 0, read |-> 0]
Changing(t) == thread[t].at \in {"ask", "delete", "issue", "save", "saved", "clear", "cleared"}

AsTypeOK ==
  /\ otpKey \in [code : 0..MaxCodes, attempts : 0..MaxAttempts]
  /\ otpSends \in 0..SendLimit + 1 /\ codes \in 0..MaxCodes
  /\ codeSending \in {"no", "count", "store"}
  /\ pairs \in 0..MaxPairs /\ stale \subseteq Pairs /\ refreshKeys \subseteq Pairs
  /\ held \in 0..MaxPairs /\ disk \in 0..MaxPairs
  /\ thread \in [Threads -> [at : {"idle", "sent", "ask", "delete", "issue", "save", "clear",
                                   "saved", "cleared", "guess", "miss", "take"},
                             pair : 0..MaxPairs, guess : 0..MaxCodes,
                             read : 0..MaxAttempts]]
  /\ contended \in BOOLEAN /\ misses \in 0..MaxAttempts /\ crossed \in BOOLEAN

AsInit ==
  /\ otpKey = [code |-> 0, attempts |-> 0] /\ otpSends = 0 /\ codes = 0 /\ codeSending = "no"
  /\ pairs = 0 /\ stale = {} /\ refreshKeys = {} /\ held = 0 /\ disk = 0
  /\ thread = [t \in Threads |-> Resting]
  /\ contended = FALSE /\ misses = 0 /\ crossed = FALSE

-----------------------------------------------------------------------------
(* The code: sendOtp and verifyOtp                                          *)

\* Continue, or Resend code: not held back by a guess still under way.
TapSend ==
  /\ held = 0 /\ codeSending = "no" /\ codes < MaxCodes /\ otpSends <= SendLimit
  /\ codeSending' = "count"
  /\ UNCHANGED <<otpKey, otpSends, codes, pairs, stale, refreshKeys, held, disk, thread,
                 contended, misses, crossed, faults>>

CountSend ==
  /\ codeSending = "count"
  /\ otpSends' = otpSends + 1
  /\ codeSending' = IF otpSends' > SendLimit THEN "no" ELSE "store"
  /\ UNCHANGED <<otpKey, codes, pairs, stale, refreshKeys, held, disk, thread, contended,
                 misses, crossed, faults>>

(* mutant: a new code inherits the attempts of the one before *)
SameAttempts(code) == [code |-> code, attempts |-> otpKey.attempts]
NewKey(code) == [code |-> code, attempts |-> 0]

StoreCode ==
  /\ codeSending = "store" /\ codeSending' = "no"
  /\ codes' = codes + 1 /\ otpKey' = NewKey(codes') /\ misses' = 0 /\ crossed' = FALSE
  /\ UNCHANGED <<otpSends, pairs, stale, refreshKeys, held, disk, thread, contended, faults>>

SendFails ==
  /\ codeSending # "no" /\ codeSending' = "no" /\ Fault
  /\ UNCHANGED <<otpKey, otpSends, codes, pairs, stale, refreshKeys, held, disk, thread,
                 contended, misses, crossed>>

\* The window of the send limit passes.
SendWindowEnds ==
  /\ otpSends > 0 /\ codeSending = "no" /\ otpSends' = 0
  /\ UNCHANGED <<otpKey, codes, codeSending, pairs, stale, refreshKeys, held, disk, thread,
                 contended, misses, crossed, faults>>

CodeExpires ==
  /\ otpKey.code # 0 /\ Fault /\ otpKey' = [code |-> 0, attempts |-> 0]
  /\ UNCHANGED <<otpSends, codes, codeSending, pairs, stale, refreshKeys, held, disk, thread,
                 contended, misses, crossed>>

Does(t, now) == thread' = [thread EXCEPT ![t] = now]

\* Verify, with the newest code (guess 0 is a wrong one).
TapVerify(guess) ==
  /\ held = 0 /\ codes > 0 /\ thread["signIn"].at = "idle" /\ guess \in {0, codes}
  /\ Does("signIn", [Resting EXCEPT !.at = "guess", !.guess = guess])
  /\ UNCHANGED <<otpVars, pairs, stale, refreshKeys, held, disk, contended, faults>>

\* The key as it was read decides; a key with no attempts left goes, and a miss
\* keeps the code and the attempts it read.
CheckCode ==
  LET t == thread["signIn"]
      spent == otpKey.code # 0 /\ otpKey.attempts >= MaxAttempts IN
  /\ t.at = "guess"
  /\ Does("signIn", CASE otpKey.code = 0 \/ spent -> Resting
                      [] ~spent /\ otpKey.code # 0 /\ otpKey.code = t.guess ->
                           [t EXCEPT !.at = "take"]
                      [] OTHER -> [t EXCEPT !.at = "miss", !.guess = otpKey.code,
                                            !.read = otpKey.attempts])
  /\ otpKey' = IF spent THEN [code |-> 0, attempts |-> 0] ELSE otpKey
  /\ UNCHANGED <<otpSends, codes, codeSending, misses, crossed, pairs, stale, refreshKeys, held,
                 disk, contended, faults>>

\* The key is written back as it was read, one attempt further.
CountMiss ==
  LET t == thread["signIn"] IN
  /\ t.at = "miss" /\ Does("signIn", Resting)
  /\ otpKey' = [code |-> t.guess, attempts |-> t.read + 1]
  /\ crossed' = (crossed \/ t.guess # codes)
  /\ misses' = IF misses < MaxAttempts THEN misses + 1 ELSE misses
  /\ UNCHANGED <<otpSends, codes, codeSending, pairs, stale, refreshKeys, held, disk, contended,
                 faults>>

Enters(t) == contended' = (contended \/ \E u \in Threads \ {t} : Changing(u))

TakeCode ==
  /\ thread["signIn"].at = "take" /\ otpKey' = [code |-> 0, attempts |-> 0]
  /\ Does("signIn", [Resting EXCEPT !.at = "issue"]) /\ Enters("signIn")
  /\ UNCHANGED <<otpSends, codes, codeSending, misses, crossed, pairs, stale, refreshKeys, held,
                 disk, faults>>

-----------------------------------------------------------------------------
(* The tokens: TokenService and the client                                  *)

AccessExpires ==
  /\ held # 0 /\ held \notin stale /\ pairs < MaxPairs /\ stale' = stale \cup {held}
  /\ UNCHANGED <<otpVars, pairs, refreshKeys, held, disk, thread, contended, faults>>

SendRequest(r) ==
  /\ held # 0 /\ thread[r].at = "idle"
  /\ Does(r, [Resting EXCEPT !.at = "sent", !.pair = held])
  /\ UNCHANGED <<otpVars, pairs, stale, refreshKeys, held, disk, contended, faults>>

RequestServed(r) ==
  /\ thread[r].at = "sent" /\ thread[r].pair \in Pairs \ stale /\ Does(r, Resting)
  /\ UNCHANGED <<otpVars, pairs, stale, refreshKeys, held, disk, contended, faults>>

\* A 401: refresh with the pair the store holds by now, or clear it.
RequestRefused(r) ==
  /\ thread[r].at = "sent" /\ thread[r].pair \notin Pairs \ stale
  /\ Does(r, [Resting EXCEPT !.at = IF held = 0 THEN "clear" ELSE "ask", !.pair = held])
  /\ Enters(r)
  /\ UNCHANGED <<otpVars, pairs, stale, refreshKeys, held, disk, faults>>

RotateRead(r) ==
  /\ thread[r].at = "ask"
  /\ Does(r, [thread[r] EXCEPT !.at = IF thread[r].pair \in refreshKeys THEN "delete" ELSE "clear"])
  /\ UNCHANGED <<otpVars, pairs, stale, refreshKeys, held, disk, contended, faults>>

RotateDelete(r) ==
  /\ thread[r].at = "delete" /\ Does(r, [thread[r] EXCEPT !.at = "issue"])
  /\ refreshKeys' = refreshKeys \ {thread[r].pair}
  /\ UNCHANGED <<otpVars, pairs, stale, held, disk, contended, faults>>

(* mutant: a rotation signs a refresh token it does not store *)
FirstOnly(p) == IF p = 1 THEN refreshKeys \cup {p} ELSE refreshKeys
WithKey(p) == refreshKeys \cup {p}

IssuePair(t) ==
  /\ thread[t].at = "issue" /\ pairs < MaxPairs
  /\ pairs' = pairs + 1 /\ refreshKeys' = WithKey(pairs')
  /\ Does(t, [Resting EXCEPT !.at = "save", !.pair = pairs'])
  /\ UNCHANGED <<otpVars, stale, held, disk, contended, faults>>

\* setTokens: SecureStore, then the store; a request is sent again.
SaveTokens(t) ==
  /\ thread[t].at = "save" /\ disk' = thread[t].pair /\ Does(t, [thread[t] EXCEPT !.at = "saved"])
  /\ UNCHANGED <<otpVars, pairs, stale, refreshKeys, held, contended, faults>>
TokensSaved(t) ==
  /\ thread[t].at = "saved" /\ held' = thread[t].pair
  /\ Does(t, IF t \in Requests THEN [thread[t] EXCEPT !.at = "sent"] ELSE Resting)
  /\ UNCHANGED <<otpVars, pairs, stale, refreshKeys, disk, contended, faults>>

\* clearTokens: the same the other way.
ClearTokens(t) ==
  /\ thread[t].at = "clear" /\ disk' = 0 /\ Does(t, [thread[t] EXCEPT !.at = "cleared"])
  /\ UNCHANGED <<otpVars, pairs, stale, refreshKeys, held, contended, faults>>
TokensCleared(t) ==
  /\ thread[t].at = "cleared" /\ held' = 0 /\ Does(t, Resting)
  /\ UNCHANGED <<otpVars, pairs, stale, refreshKeys, disk, contended, faults>>

TapSignOut ==
  /\ held # 0 /\ thread["signOut"].at = "idle"
  /\ Does("signOut", [Resting EXCEPT !.at = "clear"]) /\ Enters("signOut")
  /\ UNCHANGED <<otpVars, pairs, stale, refreshKeys, held, disk, faults>>

\* Without an answer a request fails, a refresh ends the session, and a sign-in
\* has to be made again.
AnswerLost(t) ==
  /\ thread[t].at \in {"sent", "ask", "delete", "issue", "guess", "miss", "take"} /\ Fault
  /\ Does(t, IF t \in Requests /\ Changing(t) THEN [Resting EXCEPT !.at = "clear"] ELSE Resting)
  /\ UNCHANGED <<otpVars, pairs, stale, refreshKeys, held, disk, contended>>

RefreshKeyLost ==
  /\ refreshKeys # {} /\ Fault
  /\ \E p \in refreshKeys : refreshKeys' = refreshKeys \ {p}
  /\ UNCHANGED <<otpVars, pairs, stale, held, disk, thread, contended>>

\* loadTokens takes the session back from SecureStore.
AppRestarts ==
  /\ Fault /\ thread' = [t \in Threads |-> Resting]
  /\ held' = disk
  /\ UNCHANGED <<otpVars, pairs, stale, refreshKeys, disk, contended>>

-----------------------------------------------------------------------------
AsNext ==
  \/ TapSend \/ CountSend \/ StoreCode \/ SendFails \/ SendWindowEnds \/ CodeExpires
  \/ \E guess \in 0..MaxCodes : TapVerify(guess)
  \/ CheckCode \/ CountMiss \/ TakeCode \/ AccessExpires \/ TapSignOut
  \/ RefreshKeyLost \/ AppRestarts
  \/ \E r \in Requests : \/ SendRequest(r) \/ RequestServed(r) \/ RequestRefused(r)
                         \/ RotateRead(r) \/ RotateDelete(r)
  \/ \E t \in Threads : \/ IssuePair(t) \/ SaveTokens(t) \/ TokensSaved(t)
                        \/ ClearTokens(t) \/ TokensCleared(t) \/ AnswerLost(t)
AsSpec == AsInit /\ faults = 0 /\ [][AsNext]_<<asVars, faults>>

-----------------------------------------------------------------------------
\* As long as only one thread at a time changes the session, the app loses it
\* only when its user signs out: it holds a pair the server will rotate, also
\* on disk, however often a request had to refresh (client.ts, TokenService).
SessionKept ==
  (~contended /\ faults = 0 /\ held # 0 /\ ~\E t \in Threads : Changing(t)) =>
     held \in refreshKeys /\ disk = held

\* While its key stands, the newest code is refused only after MAX_ATTEMPTS
\* wrong guesses at it, unless a slow guess at an older code was written back over it (OtpService).
NewestCodeCounts ==
  [][(/\ thread["signIn"].at = "guess" /\ thread["signIn"].guess = codes
      /\ otpKey.code # 0 /\ ~crossed /\ faults' = 0 /\ misses < MaxAttempts
      /\ thread'["signIn"] # thread["signIn"])
     => thread'["signIn"].at = "take"]_asVars
=============================================================================
