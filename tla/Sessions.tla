------------------------------- MODULE Sessions -------------------------------
(***************************************************************************)
(* Registration, login, refresh and logout of one user at the gateway      *)
(* (gateway/src/auth/authService.ts, gateway/routes/auth.ts).              *)
(*                                                                         *)
(* A request makes at most one refresh token, so a token bears the name of *)
(* the request that made it, and a family that of the request that began   *)
(* it.  Each statement of the database is one step; it may fail.  Only the *)
(* holder of a token presents it, but it may do so more than once.         *)
(***************************************************************************)

CONSTANTS
    AuthRequest,    \* requests to the handlers
    NoToken         \* no row, no token presented

ASSUME SessionsConstants ==
    NoToken \notin AuthRequest \cup [familyId : AuthRequest, revoked : BOOLEAN]

VARIABLES
    account,        \* a row of users has the e-mail address
    tokenRows,      \* refresh_tokens: [familyId, revoked]
    authPc,         \* where each request is
    presented,      \* the token each refresh or logout was called with
    revokedFamilies,\* observation only
    raced           \* observation only: families revoked while a refresh that had
                    \* used its token had not yet made the new one

sessionVars == <<account, tokenRows, authPc, presented, revokedFamilies, raced>>

SessionsInit ==
    /\ account = FALSE
    /\ tokenRows = [t \in AuthRequest |-> NoToken]
    /\ authPc = [r \in AuthRequest |-> "new"]
    /\ presented = [r \in AuthRequest |-> NoToken]
    /\ revokedFamilies = {} /\ raced = {}

AuthGoto(r, place) == authPc' = [authPc EXCEPT ![r] = place]
FamilyOf(t) == tokenRows[t].familyId
Live(t) == tokenRows[t] # NoToken /\ ~tokenRows[t].revoked
Renewing(r) == authPc[r] = "renewing"

\* registerUser: the address is looked up, the password hashed, the row made.
LookUpAddress(r) ==
    /\ authPc[r] = "new"
    /\ AuthGoto(r, IF account THEN "refused" ELSE "registering")
    /\ UNCHANGED <<account, tokenRows, presented, revokedFamilies, raced>>

\* The address is unique in the database.
CreateUser(r) ==
    /\ authPc[r] = "registering"
    /\ AuthGoto(r, IF account THEN "refused" ELSE "beginning")
    /\ account' = TRUE
    /\ UNCHANGED <<tokenRows, presented, revokedFamilies, raced>>

\* loginUser with the right password, or not.
Login(r) ==
    /\ authPc[r] = "new"
    /\ \/ account /\ AuthGoto(r, "beginning")
       \/ AuthGoto(r, "refused")
    /\ UNCHANGED <<account, tokenRows, presented, revokedFamilies, raced>>

\* generateTokens of a registration or a login: a family of its own.
BeginFamily(r) ==
    /\ authPc[r] = "beginning"
    /\ tokenRows' = [tokenRows EXCEPT ![r] = [familyId |-> r, revoked |-> FALSE]]
    /\ AuthGoto(r, "answered")
    /\ UNCHANGED <<account, presented, revokedFamilies, raced>>

\* refreshAccessToken reads the row; what it found is looked at after the secret
\* was compared.  An expired token is refused.
FindToken(r, t) ==
    /\ authPc[r] = "new" /\ authPc[t] = "answered"
    /\ presented' = [presented EXCEPT ![r] = t]
    /\ \/ AuthGoto(r, IF tokenRows[t].revoked THEN "reused" ELSE "using")
       \/ AuthGoto(r, "refused")
    /\ UNCHANGED <<account, tokenRows, revokedFamilies, raced>>

\* Faulty variant: the update does not ask whether the token was used meanwhile.
UseTokenUnchecked(r) ==
    LET t == presented[r]
    IN  /\ authPc[r] = "using"
        /\ tokenRows' = [tokenRows EXCEPT ![t].revoked = TRUE]
        /\ AuthGoto(r, "renewing")
        /\ UNCHANGED <<account, presented, revokedFamilies, raced>>

\* The token is revoked unless it already is.
UseToken(r) ==
    LET t == presented[r]
    IN  /\ authPc[r] = "using"
        /\ tokenRows' = [tokenRows EXCEPT ![t].revoked = TRUE]
        /\ AuthGoto(r, IF tokenRows[t].revoked THEN "reused" ELSE "renewing")
        /\ UNCHANGED <<account, presented, revokedFamilies, raced>>

\* The user is looked up, the secret hashed, the new token made.
RenewToken(r) ==
    /\ Renewing(r)
    /\ tokenRows' = [tokenRows EXCEPT ![r] =
            [familyId |-> FamilyOf(presented[r]), revoked |-> FALSE]]
    /\ AuthGoto(r, "answered")
    /\ UNCHANGED <<account, presented, revokedFamilies, raced>>

\* Faulty variant: the rows are looked for by id instead of familyId.
RevokeTokenOnly(family) ==
    /\ tokenRows' = [t \in AuthRequest |->
            IF t = family THEN [tokenRows[t] EXCEPT !.revoked = TRUE] ELSE tokenRows[t]]
    /\ revokedFamilies' = revokedFamilies \cup {family}
    /\ raced' = IF \E r \in AuthRequest : Renewing(r) /\ FamilyOf(presented[r]) = family
                THEN raced \cup {family} ELSE raced

RevokeTokenFamily(family) ==
    /\ tokenRows' = [t \in AuthRequest |->
            IF tokenRows[t] # NoToken /\ FamilyOf(t) = family
            THEN [tokenRows[t] EXCEPT !.revoked = TRUE] ELSE tokenRows[t]]
    /\ revokedFamilies' = revokedFamilies \cup {family}
    /\ raced' = IF \E r \in AuthRequest : Renewing(r) /\ FamilyOf(presented[r]) = family
                THEN raced \cup {family} ELSE raced

\* "Token reuse detected"
AnswerReuse(r) ==
    /\ authPc[r] = "reused"
    /\ RevokeTokenFamily(FamilyOf(presented[r]))
    /\ AuthGoto(r, "caught")
    /\ UNCHANGED <<account, presented>>

\* logoutUser believes the signature of the token it is given, and the handler
\* answers success although the database failed.
Logout(r, t) ==
    /\ authPc[r] = "new" /\ authPc[t] = "answered"
    /\ presented' = [presented EXCEPT ![r] = t]
    /\ \/ RevokeTokenFamily(FamilyOf(t))
       \/ UNCHANGED <<tokenRows, revokedFamilies, raced>>
    /\ AuthGoto(r, "left")
    /\ UNCHANGED account

\* A statement of the database fails, or the process dies.
AuthFails(r) ==
    /\ authPc[r] \in {"registering", "beginning", "using", "renewing", "reused"}
    /\ AuthGoto(r, "refused")
    /\ UNCHANGED <<account, tokenRows, presented, revokedFamilies, raced>>

SessionsNext ==
    \E r \in AuthRequest :
        \/ LookUpAddress(r) \/ CreateUser(r) \/ Login(r) \/ BeginFamily(r)
        \/ \E t \in AuthRequest : FindToken(r, t) \/ Logout(r, t)
        \/ UseToken(r) \/ RenewToken(r) \/ AnswerReuse(r) \/ AuthFails(r)

SessionsSpec == SessionsInit /\ [][SessionsNext]_sessionVars

\* Requests that hold the right to continue a session: their token is live, or
\* they have used one and will make the next.
Continues(r, family) ==
    \/ Live(r) /\ FamilyOf(r) = family
    \/ Renewing(r) /\ FamilyOf(presented[r]) = family

\* A session never forks: however often one token is presented at the same time,
\* a family has one successor (the UPDATE of refreshAccessToken).
SessionNeverForks ==
    \A family, r, s \in AuthRequest :
        Continues(r, family) /\ Continues(s, family) => r = s

\* A family whose rows a logout or the detection of a reuse has updated has no live
\* token, and never will have, unless the update came between a refresh's use of its
\* token and its making the next (refreshAccessToken, from the UPDATE to the create).
FamilyClosed ==
    \A r \in AuthRequest, family \in revokedFamilies \ raced : ~Continues(r, family)

\* What the API promises of a logout: no token of the session works after it
\* (logoutUser).  It does not hold: an error of the database is taken for a success.
LogoutEndsSession ==
    \A r, s \in AuthRequest :
        authPc[r] = "left" /\ Live(s) => FamilyOf(s) # FamilyOf(presented[r])

\* What the detection of a reuse is for: the entire family is revoked, and none of
\* its tokens works after it (refreshAccessToken, revokeTokenFamily).  It does not
\* hold: the refresh that came first may insert its token after that.
ReuseEndsFamily ==
    \A r, s \in AuthRequest :
        authPc[r] = "caught" /\ Live(s) => FamilyOf(s) # FamilyOf(presented[r])
================================================================================
