------------------------------ MODULE Accounts ------------------------------
(***************************************************************************)
(* AuthService and UserRepository: how accounts come to be (a phone code,  *)
(* sign-up with a password, Google) and how the pending codes of a phone   *)
(* and of an email address are set, checked and cleared.                   *)
(*                                                                         *)
(* Every call looks a row up first and writes in a later statement; a      *)
(* call between the two is a slot of requests, standing at its write.      *)
(* Passwords, tokens, names, photos, roles, addresses, push tokens and     *)
(* the admin's suspension of an account are left out: nothing modelled     *)
(* here depends on them.  A code that has expired is one that is refused.  *)
(***************************************************************************)
EXTENDS Naturals

CONSTANTS
  Users,       \* users: primary keys
  Phones,      \* phone numbers, generated placeholders included
  Emails,
  Googles,     \* Google accounts
  GoogleEmail, \* the address of each Google account
  Codes,       \* codes GenerateOTP may return
  Requests,    \* calls between their read and their write
  None

GoogleEmailAssumption == GoogleEmail \in [Googles -> Emails]

VARIABLES
  users,    \* rows of users
  requests, \* calls under way
  issued    \* the codes generated for each phone number

accountVars == <<users, requests, issued>>

Maybe(S) == S \cup {None}

User ==
  [phone : Maybe(Phones), email : Maybe(Emails), google : Maybe(Googles),
   otp : Maybe(Codes), emailOtp : Maybe(Codes),
   phoneVerified : BOOLEAN, emailVerified : BOOLEAN]

NewUser ==
  [phone |-> None, email |-> None, google |-> None, otp |-> None,
   emailOtp |-> None, phoneVerified |-> FALSE, emailVerified |-> FALSE]

Idle == [at |-> "idle"]

Request ==
  [at : {"signup"}, phone : Phones, email : Emails]
    \cup [at : {"newPhone"}, phone : Phones]
    \cup [at : {"googleRead", "newGoogle"}, google : Googles]
    \cup [at : {"link"}, google : Googles, user : Users]
    \cup [at : {"otp", "emailOtp", "activate", "markEmail", "clearEmail"},
          user : Users]

TypeOK ==
  /\ users \in [Users -> User \cup {None}]
  /\ requests \in [Requests -> Request \cup {Idle}]
  /\ issued \in [Phones -> SUBSET Codes]

Init ==
  /\ users = [u \in Users |-> None]
  /\ requests = [r \in Requests |-> Idle]
  /\ issued = [p \in Phones |-> {}]

Accounts == {u \in Users : users[u] # None}

Begin(r, request) ==
  /\ requests[r] = Idle
  /\ requests' = [requests EXCEPT ![r] = request]
  /\ UNCHANGED <<users, issued>>

Continue(r, request) == requests' = [requests EXCEPT ![r] = request]

End(r) == Continue(r, Idle)

At(r, where) == requests[r].at = where

-----------------------------------------------------------------------------
(* What a call reads before it writes.                                       *)

\* RequestOTP up to GetByPhone: without a row it creates one first.
RequestOTP(r, phone) ==
  \/ /\ \A u \in Accounts : users[u].phone # phone
     /\ Begin(r, [at |-> "newPhone", phone |-> phone])
  \/ \E u \in Accounts :
       users[u].phone = phone /\ Begin(r, [at |-> "otp", user |-> u])

\* The stored code is the one entered.
VerifyOTP(r, phone, code) ==
  \E u \in Accounts :
    /\ users[u].phone = phone
    /\ users[u].otp = code
    /\ Begin(r, [at |-> "activate", user |-> u])

\* RequestEmailOTP unless the address is verified, and RequestPasswordReset
\* whether it is or not.
RequestEmailCode(r, email) ==
  \E u \in Accounts :
    users[u].email = email /\ Begin(r, [at |-> "emailOtp", user |-> u])

VerifyEmailOTP(r, email, code) ==
  \E u \in Accounts :
    /\ users[u].email = email
    /\ users[u].emailOtp = code
    /\ Begin(r, [at |-> "markEmail", user |-> u])

\* ResetPassword with the right code, and ResetPasswordSkipOTP.
ResetPassword(r, email) ==
  \E u \in Accounts :
    users[u].email = email /\ Begin(r, [at |-> "clearEmail", user |-> u])

\* SignupWithPassword up to ExistsByEmailOrPhone.
SignupWithPassword(r, phone, email) ==
  /\ \A u \in Accounts : users[u].phone # phone /\ users[u].email # email
  /\ Begin(r, [at |-> "signup", phone |-> phone, email |-> email])

\* LoginWithGoogle up to GetByGoogleID; an account that is found is signed in.
LoginWithGoogle(r, g) ==
  /\ \A u \in Accounts : users[u].google # g
  /\ Begin(r, [at |-> "googleRead", google |-> g])

\* LoginWithGoogle's GetByEmail.
GoogleGetByEmail(r) ==
  LET g == requests[r].google IN
  /\ At(r, "googleRead")
  /\ \/ /\ \A u \in Accounts : users[u].email # GoogleEmail[g]
        /\ Continue(r, [at |-> "newGoogle", google |-> g])
     \/ \E u \in Accounts :
          /\ users[u].email = GoogleEmail[g]
          /\ Continue(r, [at |-> "link", google |-> g, user |-> u])
  /\ UNCHANGED <<users, issued>>

-----------------------------------------------------------------------------
(* The statements that write.                                                *)

\* phone, email and google_id are unique columns of users; NULLs do not clash.
Free(u, row) ==
  \A v \in Accounts \ {u} :
    \A column \in {"phone", "email", "google"} :
      row[column] # None => users[v][column] # row[column]

Insert(u, row) ==
  /\ users[u] = None
  /\ Free(u, row)
  /\ users' = [users EXCEPT ![u] = row]

CreateFull(r, u) ==
  /\ At(r, "signup")
  /\ Insert(u, [NewUser EXCEPT !.phone = requests[r].phone,
                               !.email = requests[r].email])
  /\ End(r)
  /\ UNCHANGED issued

CreateWithPhone(r, u) ==
  /\ At(r, "newPhone")
  /\ Insert(u, [NewUser EXCEPT !.phone = requests[r].phone])
  /\ Continue(r, [at |-> "otp", user |-> u])
  /\ UNCHANGED issued

CreateWithGoogle(r, u) ==
  LET g == requests[r].google IN
  /\ At(r, "newGoogle")
  /\ Insert(u, [NewUser EXCEPT !.google = g, !.email = GoogleEmail[g],
                               !.emailVerified = TRUE])
  /\ End(r)
  /\ UNCHANGED issued

\* The rows of users with row in the place of u's, if its columns are free.
Update(u, row) ==
  /\ Free(u, row)
  /\ users' = [users EXCEPT ![u] = row]

LinkGoogleID(r) ==
  /\ At(r, "link")
  /\ LET u == requests[r].user IN
     Update(u, [users[u] EXCEPT !.google = requests[r].google])
  /\ End(r)
  /\ UNCHANGED issued

SetOTP(r, code) ==
  /\ At(r, "otp")
  /\ LET u == requests[r].user IN
     /\ Update(u, [users[u] EXCEPT !.otp = code])
     /\ issued' = [issued EXCEPT ![users[u].phone] = @ \cup {code}]
  /\ End(r)

\* Mutant of SetEmailOTP: in the columns of the phone code.
SetEmailOTPShared(r, code) ==
  /\ At(r, "emailOtp")
  /\ LET u == requests[r].user IN Update(u, [users[u] EXCEPT !.otp = code])
  /\ End(r)
  /\ UNCHANGED issued

SetEmailOTP(r, code) ==
  /\ At(r, "emailOtp")
  /\ LET u == requests[r].user IN
     Update(u, [users[u] EXCEPT !.emailOtp = code])
  /\ End(r)
  /\ UNCHANGED issued

VerifyOTPAndActivate(r) ==
  /\ At(r, "activate")
  /\ LET u == requests[r].user IN
     Update(u, [users[u] EXCEPT !.phoneVerified = TRUE, !.otp = None])
  /\ End(r)
  /\ UNCHANGED issued

MarkEmailVerified(r) ==
  /\ At(r, "markEmail")
  /\ LET u == requests[r].user IN
     Update(u, [users[u] EXCEPT !.emailVerified = TRUE, !.emailOtp = None])
  /\ End(r)
  /\ UNCHANGED issued

ClearEmailOTP(r) ==
  /\ At(r, "clearEmail")
  /\ LET u == requests[r].user IN
     Update(u, [users[u] EXCEPT !.emailOtp = None])
  /\ End(r)
  /\ UNCHANGED issued

\* A new address, or none, stays as verified as the old one was.
UpdateProfile(u, email) ==
  /\ u \in Accounts
  /\ Update(u, [users[u] EXCEPT !.email = email])
  /\ UNCHANGED <<requests, issued>>

\* A column is taken, or the statement fails; the call is over.
RequestFails(r) ==
  /\ requests[r] # Idle
  /\ End(r)
  /\ UNCHANGED <<users, issued>>

Next ==
  \/ \E r \in Requests :
       \/ \E p \in Phones : RequestOTP(r, p)
       \/ \E p \in Phones, c \in Codes : VerifyOTP(r, p, c)
       \/ \E e \in Emails : RequestEmailCode(r, e) \/ ResetPassword(r, e)
       \/ \E e \in Emails, c \in Codes : VerifyEmailOTP(r, e, c)
       \/ \E p \in Phones, e \in Emails : SignupWithPassword(r, p, e)
       \/ \E g \in Googles : LoginWithGoogle(r, g)
       \/ GoogleGetByEmail(r)
       \/ \E u \in Users :
            CreateFull(r, u) \/ CreateWithPhone(r, u) \/ CreateWithGoogle(r, u)
       \/ LinkGoogleID(r)
       \/ \E c \in Codes : SetOTP(r, c) \/ SetEmailOTP(r, c)
       \/ VerifyOTPAndActivate(r)
       \/ MarkEmailVerified(r)
       \/ ClearEmailOTP(r)
       \/ RequestFails(r)
  \/ \E u \in Users, e \in Maybe(Emails) : UpdateProfile(u, e)

Spec == Init /\ [][Next]_accountVars

-----------------------------------------------------------------------------
(* What the component promises.                                              *)

\* auth_service.go: signing in with Google links an account "rather than
\* creating a duplicate": whichever ways of signing up cross, a phone number,
\* an address and a Google account each lead to one account.
OneAccountPerIdentity ==
  \A u, v \in Accounts : \A column \in {"phone", "email", "google"} :
    u # v /\ users[u][column] # None =>
      users[u][column] # users[v][column]

\* A phone number is verified only after a code was generated for it, and the
\* code that is pending is one of those, never one mailed to the address.
PhoneCodeWasIssued ==
  \A u \in Accounts :
    /\ users[u].otp # None => users[u].otp \in issued[users[u].phone]
    /\ users[u].phoneVerified => issued[users[u].phone] # {}

\* 018_google_auth.sql keeps the Google id "so a returning Google user is
\* matched even if their email is later reused elsewhere": the account of a
\* Google account stays its account.
ReturningGoogleUser ==
  [][\A u \in Accounts :
       users[u].google # None => users'[u].google = users[u].google]_accountVars

=============================================================================
