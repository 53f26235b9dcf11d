------------------------------ MODULE WebLogin ------------------------------
(***************************************************************************)
(* Signing in on the web site.  The Admin and the Setter form go through   *)
(* e-mail address, e-mail code, password and SMS code; the Invigilator     *)
(* form through e-mail code, place, face, fingerprint and a one-time code; *)
(* the Candidate form asks the backend, which never lets a candidate in.   *)
(* One request is under way at a time, but the address stays editable and  *)
(* the countdown of the e-mail code runs on under it.                      *)
(*                                                                         *)
(* A definition marked "Variant" is no part of the specification: it is    *)
(* the next definition with a plausible mistake, which a property refutes. *)
(***************************************************************************)
EXTENDS Integers, Sequences, FiniteSets

CONSTANTS
    Accounts,   \* e-mail addresses with an account at the backend
    NoAccount,  \* no address
    RoleOf,     \* the role of each account
    Portals,    \* the login forms in use
    MaxCodes,   \* bound: e-mail codes asked for
    MaxTries,   \* EMAIL_OTP_MAX_ATTEMPTS, OTP_MAX_ATTEMPTS
    MaxVisits   \* bound: times a form is opened

AllPortals == {"ADMIN", "SETTER", "INVIGILATOR", "CANDIDATE"}

ASSUME LoginAssumption ==
    /\ NoAccount \notin Accounts
    /\ Portals \subseteq AllPortals
    /\ RoleOf \in [Accounts -> AllPortals]
    /\ MaxCodes \in Nat
    /\ MaxTries \in Nat \ {0}
    /\ MaxVisits \in Nat

VARIABLES
    form,    \* the form shown: its portal, step and fields
    ask,     \* the form's request under way
    codes,   \* email_otp_challenges
    grants,  \* email_verification_grants
    pins,    \* otp_challenges: the codes sent by SMS
    session, \* the session AuthContext holds and keeps in sessionStorage
    visits   \* how often a form was opened

loginVars == <<form, ask, codes, grants, pins, session, visits>>

Address == Accounts \cup {NoAccount}

Staff == {"ADMIN", "SETTER"}

Steps == {"EMAIL_ENTRY", "EMAIL_OTP", "PASSWORD_ENTRY", "SMS_OTP",
          "geofence", "face", "fingerprint", "otp", "ROLL"}

\* A form as it is mounted.
NewForm(p) == [portal |-> p, step |-> IF p = "CANDIDATE" THEN "ROLL" ELSE "EMAIL_ENTRY",
               email |-> NoAccount, challenge |-> 0, token |-> 0, pin |-> 0,
               face |-> NoAccount]

NoAsk == [is |-> "none", email |-> NoAccount, ref |-> 0, right |-> FALSE, got |-> -1]

NoSession == [role |-> "none", email |-> NoAccount, pin |-> 0]

Refs == 0..MaxCodes

LoginTypeOK ==
    /\ form \in [portal : Portals, step : Steps, email : Address, challenge : Refs,
                 token : Refs, pin : Refs, face : Address]
    /\ ask \in [is : {"none", "code", "verify", "password", "pin", "roll"}, email : Address,
                ref : Refs, right : BOOLEAN, got : -1..MaxCodes]
    /\ codes \in Seq([email : Accounts, role : Portals, used : BOOLEAN, tries : 0..MaxTries])
    /\ grants \in Seq([email : Accounts, role : Portals, used : BOOLEAN])
    /\ pins \in Seq([user : Accounts, used : BOOLEAN, tries : 0..MaxTries])
    /\ Len(codes) \in Refs
    /\ Len(grants) \in Refs
    /\ Len(pins) \in Refs
    /\ session \in [role : AllPortals \cup {"none"}, email : Address, pin : Refs]
    /\ visits \in 0..MaxVisits

LoginInit ==
    /\ form \in {NewForm(p) : p \in Portals}
    /\ ask = NoAsk
    /\ codes = <<>>
    /\ grants = <<>>
    /\ pins = <<>>
    /\ session = NoSession
    /\ visits = 0

(***************************************************************************)
(* The form.                                                               *)
(***************************************************************************)
\* Only the buttons wait for the answer, not the input.
TypeEmail(a) ==
    /\ form.step = "EMAIL_ENTRY"
    /\ form.email # a
    /\ form' = [form EXCEPT !.email = a]
    /\ UNCHANGED <<ask, codes, grants, pins, session, visits>>

Send(kind, ref, right) ==
    /\ ask = NoAsk
    /\ ask' = [is |-> kind, email |-> form.email, ref |-> ref, right |-> right, got |-> -1]
    /\ UNCHANGED <<form, codes, grants, pins, session, visits>>

AskForCode ==
    /\ form.step = "EMAIL_ENTRY"
    /\ form.email # NoAccount
    /\ Send("code", 0, TRUE)

EnterCode(right) ==
    /\ form.step = "EMAIL_OTP"
    /\ Send("verify", form.challenge, right)

EnterPassword(right) ==
    /\ form.step = "PASSWORD_ENTRY"
    /\ Send("password", form.token, right)

EnterPin(right) ==
    /\ form.step = "SMS_OTP"
    /\ Send("pin", form.pin, right)

\* 120 seconds after the code was sent, even while its verification is awaited.
CountdownEnds ==
    /\ form.step = "EMAIL_OTP"
    /\ form' = [form EXCEPT !.step = "EMAIL_ENTRY"]
    /\ UNCHANGED <<ask, codes, grants, pins, session, visits>>

(***************************************************************************)
(* The backend answers a request; got is what the answer refers to, 0 an   *)
(* error.                                                                  *)
(***************************************************************************)
Asked(kind) == ask.is = kind /\ ask.got = -1

Answer(n) == ask' = [ask EXCEPT !.got = n]

\* Refused for the cooldown or the hour's limit, or the code issued and perhaps not sent.
IssueCode(sent) ==
    /\ Asked("code")
    /\ Len(codes) < MaxCodes
    /\ codes' = Append([i \in DOMAIN codes |->
                          [codes[i] EXCEPT !.used = @ \/ codes[i].email = ask.email]],
                       [email |-> ask.email, role |-> form.portal, used |-> FALSE, tries |-> 0])
    /\ Answer(IF sent THEN Len(codes') ELSE 0)
    /\ UNCHANGED <<form, grants, pins, session, visits>>

RefuseCode ==
    /\ Asked("code")
    /\ Answer(0)
    /\ UNCHANGED <<form, codes, grants, pins, session, visits>>

\* verify: a code that fits, is not used, has not expired and has tries left.
GrantEmail(expired) ==
    /\ Asked("verify")
    /\ LET c   == codes[ask.ref]
           fit == c.email = ask.email /\ ~c.used
           out == expired \/ c.tries >= MaxTries
           ok  == fit /\ ~out /\ ask.right
       IN  /\ codes' = IF ~fit THEN codes
                       ELSE IF out \/ ok THEN [codes EXCEPT ![ask.ref].used = TRUE]
                       ELSE [codes EXCEPT ![ask.ref].tries = @ + 1]
           /\ grants' = IF ok THEN Append(grants, [email |-> c.email, role |-> c.role, used |-> FALSE])
                        ELSE grants
           /\ Answer(IF ok THEN Len(grants') ELSE 0)
    /\ UNCHANGED <<form, pins, session, visits>>

\* Variant: the token of any address will do.
GrantFitsAnyEmail(g, a) == g.role = RoleOf[a]

GrantFits(g, a) == g.email = a /\ g.role = RoleOf[a]

\* auth/login: the grant is spent before the password is looked at.
CheckPassword(expired, sent) ==
    /\ Asked("password")
    /\ Len(pins) < MaxCodes
    /\ LET g   == grants[ask.ref]
           fit == ~g.used /\ ~expired /\ GrantFits(g, ask.email)
           ok  == fit /\ ask.right
       IN  /\ grants' = IF fit THEN [grants EXCEPT ![ask.ref].used = TRUE] ELSE grants
           /\ pins' = IF ok THEN Append(pins, [user |-> ask.email, used |-> FALSE, tries |-> 0])
                      ELSE pins
           /\ Answer(IF ok /\ sent THEN Len(pins') ELSE 0)
    /\ UNCHANGED <<form, codes, session, visits>>

CheckPin(expired) ==
    /\ Asked("pin")
    /\ LET c  == pins[ask.ref]
           ok == ~c.used /\ ~expired /\ c.tries < MaxTries
       IN  /\ pins' = IF ok THEN [pins EXCEPT ![ask.ref].tries = @ + 1, ![ask.ref].used = ask.right]
                      ELSE pins
           /\ Answer(IF ok /\ ask.right THEN ask.ref ELSE 0)
    /\ UNCHANGED <<form, codes, grants, session, visits>>

(***************************************************************************)
(* The form takes the answer, wherever it has got to by then.              *)
(***************************************************************************)
Got(kind) ==
    /\ ask.is = kind
    /\ ask.got > 0
    /\ ask' = NoAsk
    /\ UNCHANGED <<codes, grants, pins, visits>>

CodeSent ==
    /\ Got("code")
    /\ form' = [form EXCEPT !.challenge = ask.got, !.step = "EMAIL_OTP"]
    /\ UNCHANGED session

EmailVerified ==
    /\ Got("verify")
    /\ form.portal \in Staff
    /\ form' = [form EXCEPT !.token = ask.got, !.step = "PASSWORD_ENTRY"]
    /\ UNCHANGED session

PasswordVerified ==
    /\ Got("password")
    /\ form' = [form EXCEPT !.pin = ask.got, !.step = "SMS_OTP"]
    /\ UNCHANGED session

\* login of AuthContext: the role of the form, the address it shows.
SignIn(pin) == session' = [role |-> form.portal, email |-> form.email, pin |-> pin]

SignedIn ==
    /\ Got("pin")
    /\ SignIn(ask.got)
    /\ form' = NewForm(form.portal)

\* An error, or no answer at all: the form stays where it is.
AskFails ==
    /\ ask # NoAsk
    /\ ask.got <= 0
    /\ ask' = NoAsk
    /\ UNCHANGED <<form, codes, grants, pins, session, visits>>

AnswerLost ==
    /\ ask.got > 0
    /\ ask' = NoAsk
    /\ UNCHANGED <<form, codes, grants, pins, session, visits>>

(***************************************************************************)
(* The Invigilator form after the e-mail code.                             *)
(***************************************************************************)
Step(from, to) ==
    /\ form.step = from
    /\ form' = [form EXCEPT !.step = to]
    /\ UNCHANGED <<ask, codes, grants, pins, session, visits>>

\* The enrolment looked up is the one of the address the request was made with.
EnrolmentFound ==
    /\ Got("verify")
    /\ form.portal = "INVIGILATOR"
    /\ form' = [form EXCEPT !.token = ask.got, !.face = ask.email, !.step = "geofence"]
    /\ UNCHANGED session

\* None at the backend and none on this device.
EnrolmentMissing ==
    /\ Got("verify")
    /\ form.portal = "INVIGILATOR"
    /\ form' = [form EXCEPT !.token = ask.got]
    /\ UNCHANGED session

PlaceChecked == Step("geofence", "face")

FaceMatched == Step("face", "fingerprint")

FingerprintChecked == Step("fingerprint", "otp")

\* verify-totp: the backend spends the grant of this invigilator ...
SpendGrant ==
    /\ form.token # 0
    /\ ~grants[form.token].used
    /\ grants[form.token].email = form.email
    /\ grants[form.token].role = "INVIGILATOR"
    /\ RoleOf[form.email] = "INVIGILATOR"
    /\ grants' = [grants EXCEPT ![form.token].used = TRUE]

\* ... and where it refuses or is away the page accepts any six digits.
InvigilatorSignsIn ==
    /\ form.step = "otp"
    /\ SpendGrant \/ UNCHANGED grants
    /\ SignIn(0)
    /\ form' = NewForm(form.portal)
    /\ UNCHANGED <<ask, codes, pins, visits>>

(***************************************************************************)
(* The Candidate form, and the site around the forms.                      *)
(***************************************************************************)
\* auth/login of a roll number: no candidate logs in online.
CandidateAsks ==
    /\ form.step = "ROLL"
    /\ Send("roll", 0, TRUE)

CandidateRefused ==
    /\ Asked("roll")
    /\ Answer(0)
    /\ UNCHANGED <<form, codes, grants, pins, session, visits>>

\* Another login page, or the same one again; the session is read back from storage.
OpenForm(p) ==
    /\ visits < MaxVisits
    /\ visits' = visits + 1
    /\ form' = NewForm(p)
    /\ ask' = NoAsk
    /\ UNCHANGED <<codes, grants, pins, session>>

\* logout, or the four hours are over at the next mount.
SessionGone ==
    /\ session # NoSession
    /\ session' = NoSession
    /\ UNCHANGED <<form, ask, codes, grants, pins, visits>>

LoginNext ==
    \/ AskForCode \/ CountdownEnds \/ RefuseCode \/ CodeSent \/ EmailVerified
    \/ PasswordVerified \/ SignedIn \/ AskFails \/ AnswerLost
    \/ EnrolmentFound \/ EnrolmentMissing \/ PlaceChecked \/ FaceMatched
    \/ FingerprintChecked \/ InvigilatorSignsIn \/ CandidateAsks \/ CandidateRefused
    \/ SessionGone
    \/ \E a \in Accounts : TypeEmail(a)
    \/ \E p \in Portals : OpenForm(p)
    \/ \E b \in BOOLEAN :
         \/ EnterCode(b) \/ EnterPassword(b) \/ EnterPin(b) \/ IssueCode(b)
         \/ GrantEmail(b) \/ CheckPin(b)
         \/ \E c \in BOOLEAN : CheckPassword(b, c)

LoginSpec == LoginInit /\ [][LoginNext]_loginVars

(***************************************************************************)
(* Properties.                                                             *)
(***************************************************************************)
\* A staff session names an account of that role whose address was verified by an e-mail
\* code and whose phone by an SMS code, both spent: also when an answer arrives after the
\* countdown ended and the address was edited (AdminLoginForm.tsx 56-83).
StaffSessionIsVerified ==
    session.role \in Staff =>
        /\ RoleOf[session.email] = session.role
        /\ pins[session.pin].user = session.email
        /\ pins[session.pin].used
        /\ \E g \in DOMAIN grants : grants[g].email = session.email /\ grants[g].used

\* An SMS code proves an account: it was sent to its phone, after a verification of its
\* address was spent on it, and the account has the role of the form.
PinProves(n, email, role) ==
    /\ n \in DOMAIN pins /\ pins[n].user = email
    /\ RoleOf[email] = role
    /\ \E g \in DOMAIN grants : grants[g].email = email /\ grants[g].used

\* What a form f holds was issued for its own portal.
FormHolds(f) ==
    /\ f.challenge # 0 => f.challenge \in DOMAIN codes /\ codes[f.challenge].role = f.portal
    /\ f.token # 0 => f.token \in DOMAIN grants /\ grants[f.token].role = f.portal
    /\ f.step = "EMAIL_OTP" => f.challenge # 0
    /\ f.step = "PASSWORD_ENTRY" => f.token # 0
    /\ f.step = "SMS_OTP" => PinProves(f.pin, f.email, f.portal)
    /\ f.step \in {"geofence", "face", "fingerprint", "otp"} => f.portal = "INVIGILATOR"

\* What a request a of the form f is about, and what its answer refers to.
AskIsAbout(a, f) ==
    /\ a.is = "code" =>
         /\ a.email \in Accounts
         /\ a.got > 0 => a.got \in DOMAIN codes /\ codes[a.got].role = f.portal
    /\ a.is = "verify" =>
         /\ a.ref \in DOMAIN codes /\ codes[a.ref].role = f.portal
         /\ a.got > 0 => a.got \in DOMAIN grants /\ grants[a.got].role = f.portal
    /\ a.is = "password" =>
         /\ a.ref \in DOMAIN grants /\ grants[a.ref].role = f.portal
         /\ f.step = "PASSWORD_ENTRY" /\ a.email = f.email
         /\ a.got > 0 => PinProves(a.got, f.email, f.portal)
    /\ a.is = "pin" =>
         /\ f.step = "SMS_OTP" /\ a.ref = f.pin
         /\ a.got > 0 => a.got = f.pin /\ pins[f.pin].used

UsedCodes == {c \in DOMAIN codes : codes[c].used}

\* An inductive invariant.
LoginInv ==
    /\ LoginTypeOK
    /\ FormHolds(form)
    /\ AskIsAbout(ask, form)
    /\ Len(grants) <= Cardinality(UsedCodes)
    /\ session.role \in Staff => session.pin \in DOMAIN pins
    /\ StaffSessionIsVerified
=============================================================================
