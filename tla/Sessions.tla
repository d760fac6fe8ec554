------------------------------ MODULE Sessions ------------------------------
(* The sessions of one user: chains of rotating refresh tokens on the       *)
(* server, the cookie jar that the tabs of a browser share, and what each   *)
(* tab shows.  A request reads the token rows without a lock and writes     *)
(* them when it commits; its answer may be lost.                            *)
EXTENDS Naturals, Sequences, FiniteSets

CONSTANTS
  Tabs,        \* tabs of the one browser
  MaxTokens,   \* bound: refresh tokens ever issued
  MaxCalls     \* bound: requests in flight at a time

ASSUME TokensAssumption == MaxTokens \in Nat

VARIABLES
  tokens,      \* refresh_tokens rows in the order of issue: chain, revoked, expired
  jar,         \* cookies: refresh (index of a token, 0 if none), access ("valid" or "none")
  shows,       \* tab -> what AuthContext shows: "in", "out" or "expired"
  call,        \* slot -> request in flight
  resetToken   \* "fresh" or "spent" (used or expired)

sessionVars == <<tokens, jar, shows, call, resetToken>>

(* A tab has at most one refresh in flight (pendingRefresh) and one request *)
(* of the user.                                                             *)
Slots == Tabs \X {"refresh", "user"}

Call(kind, step, token) ==
  [kind |-> kind, step |-> step, token |-> token, verdict |-> "none", rows |-> {}, issued |-> 0]
NoCall == Call("none", "idle", 0)

NoCookies == [refresh |-> 0, access |-> "none"]

SessionsInit ==
  /\ tokens = <<>>
  /\ jar = NoCookies
  /\ shows = [t \in Tabs |-> "out"]
  /\ call = [s \in Slots |-> NoCall]
  /\ resetToken = "fresh"

-----------------------------------------------------------------------------
(* The browser.                                                             *)

Send(s, kind) ==
  /\ Cardinality({u \in Slots : call[u].step # "idle"}) < MaxCalls
  /\ call' = [call EXCEPT ![s] =
       Call(kind, "sent", IF kind \in {"refresh", "logout"} THEN jar.refresh ELSE 0)]

(* Bound: the user does one thing at a time, in one of the tabs.            *)
UserSends(t, kind) ==
  /\ \A u \in Tabs : call[<<u, "user">>].step = "idle"
  /\ Send(<<t, "user">>, kind)

(* A page opens and asks /api/auth/me, which never triggers a refresh.      *)
OpenPage(t) ==
  /\ \A k \in {"refresh", "user"} : call[<<t, k>>].step = "idle"
  /\ shows' = [shows EXCEPT ![t] = IF jar.access = "valid" THEN "in" ELSE "out"]
  /\ UNCHANGED <<tokens, jar, call, resetToken>>

AccessExpires ==
  /\ jar.access = "valid"
  /\ jar' = [jar EXCEPT !.access = "none"]
  /\ UNCHANGED <<tokens, shows, call, resetToken>>

(* A request of a signed-in tab is answered 401, and the tab refreshes.  All*)
(* 401s of one tab share one refresh; those of two tabs do not.  A 401 that *)
(* arrives after another tab has refreshed counts as an expiry of its own.  *)
RefreshAccessToken(t) ==
  /\ shows[t] = "in" /\ jar.access = "none" /\ call[<<t, "refresh">>].step = "idle"
  /\ Send(<<t, "refresh">>, "refresh")
  /\ UNCHANGED <<tokens, jar, shows, resetToken>>

Login(t) ==
  /\ shows[t] # "in"
  /\ UserSends(t, "login")
  /\ UNCHANGED <<tokens, jar, shows, resetToken>>

Logout(t) ==
  /\ shows[t] = "in"
  /\ UserSends(t, "logout")
  /\ UNCHANGED <<tokens, jar, shows, resetToken>>

(* Bound: one reset token, which the user has asked for at the start and    *)
(* presents once.                                                           *)
ConfirmPasswordReset(t) ==
  /\ resetToken = "fresh"
  /\ UserSends(t, "reset")
  /\ UNCHANGED <<tokens, jar, shows, resetToken>>

-----------------------------------------------------------------------------
(* The server.  Rows read here are written back at the commit as they are   *)
(* named here: nothing is locked and nothing is read again.                 *)

Unrevoked(chains) == {i \in DOMAIN tokens : tokens[i].chain \in chains /\ ~tokens[i].revoked}
ChainOf(n) == {tokens[i].chain : i \in {n} \cap DOMAIN tokens}

(* A mutant: a revoked token is not told from a live one.                   *)
RefreshVerdictUnchecked(n) == IF n = 0 \/ tokens[n].expired THEN "refuse" ELSE "rotate"

(* rotate_refresh_token: reuse of a revoked token ends its whole chain.     *)
RefreshVerdict(n) ==
  CASE n = 0 -> "refuse"
    [] n # 0 /\ tokens[n].revoked -> "end"
    [] n # 0 /\ ~tokens[n].revoked /\ tokens[n].expired -> "refuse"
    [] OTHER -> "rotate"

Verdict(c) ==
  CASE c.kind = "refresh" -> RefreshVerdict(c.token)
    [] c.kind = "logout" -> "end"
    [] c.kind = "login" -> "issue"
    [] c.kind = "reset" -> IF resetToken = "fresh" THEN "end" ELSE "refuse"

(* The tokens that revoke_session selects: of the presented token's chain,  *)
(* or after a password reset of every chain of the user.                    *)
RowsToRevoke(c) ==
  Unrevoked(IF c.kind = "reset" THEN {tokens[i].chain : i \in DOMAIN tokens} ELSE ChainOf(c.token))

ServerReads(s) ==
  /\ call[s].step = "sent"
  /\ LET verdict == Verdict(call[s]) IN
     call' = [call EXCEPT ![s] =
       [kind |-> call[s].kind, token |-> call[s].token, issued |-> call[s].issued,
        verdict |-> verdict, step |-> IF verdict = "refuse" THEN "answered" ELSE "read",
        rows |-> IF verdict = "end" THEN RowsToRevoke(call[s]) ELSE {}]]
  /\ UNCHANGED <<tokens, jar, shows, resetToken>>

Revoked(rows) ==
  [i \in DOMAIN tokens |->
    [chain |-> tokens[i].chain, revoked |-> tokens[i].revoked \/ i \in rows, expired |-> tokens[i].expired]]

(* A login starts a chain of its own, a rotation stays in its chain.        *)
NewToken(c) ==
  [chain |-> IF c.verdict = "rotate" THEN tokens[c.token].chain ELSE Len(tokens) + 1,
   revoked |-> FALSE, expired |-> FALSE]

ServerCommits(s) ==
  LET c == call[s]
      issues == c.verdict \in {"rotate", "issue"} IN
  /\ c.step = "read"
  /\ issues => Len(tokens) < MaxTokens
  /\ tokens' = IF issues
               THEN Append(Revoked(IF c.verdict = "rotate" THEN {c.token} ELSE {}), NewToken(c))
               ELSE Revoked(c.rows)
  /\ resetToken' = IF c.kind = "reset" THEN "spent" ELSE resetToken
  /\ call' = [call EXCEPT ![s] =
       [kind |-> c.kind, step |-> "answered", token |-> 0, verdict |-> "grant", rows |-> {},
        issued |-> IF issues THEN Len(tokens) + 1 ELSE 0]]
  /\ UNCHANGED <<jar, shows>>

(* Tokens live for 30 days, far longer than a request.                      *)
TokenExpires(i) ==
  /\ \A s \in Slots : call[s].step = "idle"
  /\ ~tokens[i].revoked /\ ~tokens[i].expired
  /\ \A j \in 1..i - 1 : tokens[j].revoked \/ tokens[j].expired
  /\ tokens' = [tokens EXCEPT ![i].expired = TRUE]
  /\ UNCHANGED <<jar, shows, call, resetToken>>

ResetTokenExpires ==
  /\ resetToken = "fresh"
  /\ resetToken' = "spent"
  /\ UNCHANGED <<tokens, jar, shows, call>>

-----------------------------------------------------------------------------
(* The answer reaches the browser.  Only a 2xx answer carries cookies: the  *)
(* cleared cookies of a handler that then raises HTTPException are dropped. *)
Granted(c) == c.verdict = "grant" /\ (c.kind = "refresh" => c.issued # 0)

JarAfter(c) ==
  CASE c.issued # 0 -> [refresh |-> c.issued, access |-> "valid"]
    [] c.issued = 0 /\ c.kind \in {"logout", "reset"} /\ Granted(c) -> NoCookies
    [] OTHER -> jar

ShownAfter(c, before) ==
  CASE c.kind = "login" -> IF Granted(c) THEN "in" ELSE before
    [] c.kind = "logout" -> "out"
    [] c.kind = "refresh" -> IF Granted(c) THEN before ELSE "expired"
    [] OTHER -> before

Delivered(s, c) ==
  /\ shows' = [shows EXCEPT ![s[1]] = ShownAfter(c, @)]
  /\ call' = [call EXCEPT ![s] = IF c.kind = "refresh" /\ Granted(c) THEN Call("none", "retry", 0) ELSE NoCall]
  /\ UNCHANGED <<tokens, resetToken>>

AnswerArrives(s) ==
  /\ call[s].step = "answered"
  /\ jar' = JarAfter(call[s])
  /\ Delivered(s, call[s])

(* The fetch fails in the tab; the server has done the work or never got    *)
(* the request.  Bound: a tab does not give up while the server works.      *)
AnswerIsLost(s) ==
  /\ call[s].step \in {"sent", "answered"}
  /\ Delivered(s, [call[s] EXCEPT !.issued = 0, !.verdict = "refuse"])
  /\ UNCHANGED jar

(* After a refresh the request is repeated once; another 401 is final.      *)
RepeatRequest(t) ==
  /\ call[<<t, "refresh">>].step = "retry"
  /\ shows' = [shows EXCEPT ![t] = IF jar.access = "valid" THEN @ ELSE "expired"]
  /\ call' = [call EXCEPT ![<<t, "refresh">>] = NoCall]
  /\ UNCHANGED <<tokens, jar, resetToken>>

SessionsNext ==
  \/ \E t \in Tabs : OpenPage(t) \/ RefreshAccessToken(t) \/ Login(t) \/ Logout(t)
                     \/ ConfirmPasswordReset(t) \/ RepeatRequest(t)
  \/ AccessExpires \/ ResetTokenExpires
  \/ \E s \in Slots : ServerReads(s) \/ ServerCommits(s) \/ AnswerArrives(s) \/ AnswerIsLost(s)
  \/ \E i \in DOMAIN tokens : TokenExpires(i)

SessionsSpec == SessionsInit /\ [][SessionsNext]_sessionVars

-----------------------------------------------------------------------------
(* Every variable has its type.                                             *)
SessionsTypeOK ==
  /\ \A i \in DOMAIN tokens : tokens[i] \in [chain : 1..i, revoked : BOOLEAN, expired : BOOLEAN]
  /\ Len(tokens) <= MaxTokens
  /\ jar \in [refresh : 0..Len(tokens), access : {"valid", "none"}]
  /\ shows \in [Tabs -> {"in", "out", "expired"}]
  /\ \A s \in Slots :
       /\ call[s].step \in {"idle", "sent", "read", "answered", "retry"}
       /\ call[s].token \in 0..Len(tokens)
       /\ call[s].rows \subseteq DOMAIN tokens
  /\ resetToken \in {"fresh", "spent"}

(* A chain can go on while a token of it is unrevoked and unexpired, or a   *)
(* rotation that read one is on its way.                                    *)
Alive(chain) ==
  \/ \E i \in Unrevoked({chain}) : ~tokens[i].expired
  \/ \E s \in Slots : /\ call[s].step = "read" /\ call[s].verdict = "rotate"
                      /\ tokens[call[s].token].chain = chain

(* Once logout, reuse of a token, a password reset or time has ended a      *)
(* chain, no late or repeated request ever brings it back.                  *)
EndedStaysEnded ==
  [][\A i \in DOMAIN tokens : ~Alive(tokens[i].chain) => ~Alive(tokens[i].chain)']_sessionVars

(* The cookies of a browser are never older than the newest answer it got   *)
(* unless that answer was lost: a tab that shows a session may then present *)
(* a revoked token.  Not an invariant: two tabs, or one lost answer, break  *)
(* it, and the next refresh signs the user out.                             *)
TabsKeepLiveToken ==
  \A t \in Tabs :
    shows[t] = "in" /\ jar.refresh # 0 /\ (\A s \in Slots : call[s].step = "idle")
      => ~tokens[jar.refresh].revoked
=============================================================================
