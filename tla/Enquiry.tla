------------------------------- MODULE Enquiry -------------------------------
(***************************************************************************)
(* The public contact form.  A visitor writes an enquiry, has a code sent  *)
(* to the address it names, and enters the code within two minutes; the    *)
(* page has it verified and sends the enquiry with the grant it gets.  The *)
(* countdown runs on, and "Go back" stays live, under the requests.  The   *)
(* backend reads a code or a grant, checks what it read and commits, with  *)
(* other requests in between and no lock on the row.                       *)
(*                                                                         *)
(* A definition marked "Variant" is no part of the specification: it is    *)
(* the next definition with a plausible mistake, which a property refutes. *)
(***************************************************************************)
EXTENDS Integers, Sequences, FiniteSets

CONSTANTS
    Visitors,   \* browsers with the page open
    Mailboxes,  \* e-mail addresses
    NoMailbox,  \* none entered
    ReadBy,     \* the addresses whose mail each visitor reads
    MaxHourly,  \* EMAIL_OTP_MAX_SENDS_PER_HOUR
    MaxMails,   \* bound: codes sent
    MaxWrong    \* EMAIL_OTP_MAX_ATTEMPTS

ASSUME EnquiryAssumption ==
    /\ NoMailbox \notin Mailboxes
    /\ ReadBy \in [Visitors -> SUBSET Mailboxes]
    /\ MaxHourly \in Nat
    /\ MaxMails \in Nat
    /\ MaxWrong \in Nat \ {0}

VARIABLES
    contact,   \* each page: its step, the data captured, the challenge, whether it is sent
    posting,   \* the requests under way, by connection
    mails,     \* email_otp_challenges of the purpose CONTACT, in the order they were sent
    passes,    \* email_verification_grants
    enquiries  \* enquiries that were accepted and mailed to the team

enquiryVars == <<contact, posting, mails, passes, enquiries>>

\* A page has one request under way; another one may be left of a connection that broke.
Connections == Visitors \X {"page", "stray"}

NoPost == [is |-> "none", address |-> NoMailbox, ref |-> 0, code |-> 0, read |-> 0]

Posts == [is : {"none", "ask", "asked", "mailed", "check", "late", "right", "wrong", "post",
                "spend", "accepted"},
          address : Mailboxes \cup {NoMailbox}, ref : Nat, code : 0..MaxMails, read : Nat]

EnquiryTypeOK ==
    /\ contact \in [Visitors -> [step : {"FORM", "OTP"}, address : Mailboxes \cup {NoMailbox},
                                 challenge : 0..MaxMails, sent : BOOLEAN]]
    /\ posting \in [Connections -> Posts]
    /\ mails \in Seq([address : Mailboxes, age : {"recent", "valid", "expired"}, used : BOOLEAN,
                      wrong : 0..MaxWrong])
    /\ passes \in Seq([address : Mailboxes, used : BOOLEAN, expired : BOOLEAN])
    /\ enquiries \in Seq([by : Visitors, address : Mailboxes, pass : DOMAIN passes,
                          since : Nat])

EnquiryInit ==
    /\ contact = [v \in Visitors |-> [step |-> "FORM", address |-> NoMailbox, challenge |-> 0,
                                      sent |-> FALSE]]
    /\ posting = [c \in Connections |-> NoPost]
    /\ mails = <<>>
    /\ passes = <<>>
    /\ enquiries = <<>>

(***************************************************************************)
(* The page.                                                               *)
(***************************************************************************)
OwnPage(v) == <<v, "page">>
Stray(v) == <<v, "stray">>

\* "Verify Email & Send": the form is captured, whatever becomes of the request.
RequestCode(v, a) ==
    /\ contact[v].step = "FORM" /\ ~contact[v].sent
    /\ posting[OwnPage(v)].is = "none"
    /\ contact' = [contact EXCEPT ![v].address = a]
    /\ posting' = [posting EXCEPT ![OwnPage(v)] = [NoPost EXCEPT !.is = "ask", !.address = a]]
    /\ UNCHANGED <<mails, passes, enquiries>>

\* The challenge is there: the code is asked for, and the countdown starts.
AskCode(v) ==
    /\ posting[OwnPage(v)].is = "mailed"
    /\ contact' = [contact EXCEPT ![v].step = "OTP", ![v].challenge = posting[OwnPage(v)].ref]
    /\ posting' = [posting EXCEPT ![OwnPage(v)] = NoPost]
    /\ UNCHANGED <<mails, passes, enquiries>>

\* A visitor enters a code out of his mail, this one or an earlier one, or a wrong one;
\* what he entered before he went back is still in the field.
EnterCode(v, code) ==
    /\ contact[v].step = "OTP" /\ ~contact[v].sent
    /\ posting[OwnPage(v)].is = "none"
    /\ code # 0 => mails[code].address \in ReadBy[v]
    /\ posting' = [posting EXCEPT ![OwnPage(v)] =
         [NoPost EXCEPT !.is = "check", !.address = contact[v].address,
                        !.ref = contact[v].challenge, !.code = code]]
    /\ UNCHANGED <<contact, mails, passes, enquiries>>

\* "Go back", also while the code is being verified.
GoBack(v) ==
    /\ contact[v].step = "OTP" /\ ~contact[v].sent
    /\ contact' = [contact EXCEPT ![v].step = "FORM"]
    /\ UNCHANGED <<posting, mails, passes, enquiries>>

\* The countdown is over, also while the code is being verified: "OTP expired".
CountdownEnds(v) == GoBack(v)

ShowSent(v) ==
    /\ posting[OwnPage(v)].is = "accepted"
    /\ contact' = [contact EXCEPT ![v].step = "FORM", ![v].sent = TRUE]
    /\ posting' = [posting EXCEPT ![OwnPage(v)] = NoPost]
    /\ UNCHANGED <<mails, passes, enquiries>>

\* A refusal, or no answer whatever the backend did: the page stays at its step.
Fails(c) == posting' = [posting EXCEPT ![c] = NoPost] /\ UNCHANGED contact

RequestLost(c) ==
    /\ posting[c].is # "none"
    /\ Fails(c)
    /\ UNCHANGED <<mails, passes, enquiries>>

\* A connection breaks and the backend goes on with its request, while the browser sends it
\* again on another or (RequestLost) tells the page that it failed.
RequestRepeated(v) ==
    /\ posting[OwnPage(v)].is \in {"ask", "check", "post"}
    /\ posting[Stray(v)].is = "none"
    /\ posting' = [posting EXCEPT ![Stray(v)] = posting[OwnPage(v)]]
    /\ UNCHANGED <<contact, mails, passes, enquiries>>

\* An answer that the page goes on with; on a broken connection nobody waits for it.
Replies(c, p) ==
    /\ posting' = [posting EXCEPT ![c] = IF c[2] = "page" THEN p ELSE NoPost]
    /\ UNCHANGED contact

(***************************************************************************)
(* The backend.                                                            *)
(***************************************************************************)
SentTo(a) == {k \in DOMAIN mails : mails[k].address = a}

\* request_email_verification reads what was sent before: within the cooldown there is
\* no other, and in an hour not too many ...
BeginMail(c) ==
    /\ posting[c].is = "ask"
    /\ LET before == SentTo(posting[c].address)
       IN  IF (\E k \in before : mails[k].age = "recent") \/ Cardinality(before) >= MaxHourly
           THEN Fails(c)
           ELSE /\ posting' = [posting EXCEPT ![c].is = "asked", ![c].read = Len(mails)]
                /\ UNCHANGED contact
    /\ UNCHANGED <<mails, passes, enquiries>>

\* ... and makes the earlier ones invalid, perhaps not those of a call that overlaps, and
\* a new one of its own.  The mail leaves after the commit; when it cannot, the challenge
\* is there all the same.
CommitMail(c) ==
    /\ posting[c].is = "asked"
    /\ Len(mails) < MaxMails
    /\ LET a == posting[c].address
       IN  /\ \E last \in posting[c].read..Len(mails) :
                mails' = Append([k \in DOMAIN mails |->
                                  IF k <= last /\ mails[k].address = a
                                  THEN [mails[k] EXCEPT !.used = TRUE] ELSE mails[k]],
                                [address |-> a, age |-> "recent", used |-> FALSE, wrong |-> 0])
           /\ \/ Replies(c, [NoPost EXCEPT !.is = "mailed", !.ref = Len(mails) + 1])
              \/ Fails(c)
    /\ UNCHANGED <<passes, enquiries>>

\* Variant: the code is looked up among all that are open.
CodeFitsAnyOpen(c, code) == code # 0 /\ ~mails[code].used

\* Every challenge has a code of its own.
CodeFits(c, code) == code = c

\* What verify_email_otp makes of the challenge that it read.
Judged(c) ==
    LET read == mails[posting[c].ref]
    IN  CASE read.address # posting[c].address \/ read.used -> "none"
          [] read.address = posting[c].address /\ ~read.used
               /\ (read.age = "expired" \/ read.wrong >= MaxWrong) -> "late"
          [] OTHER -> IF CodeFits(posting[c].ref, posting[c].code) THEN "right" ELSE "wrong"

\* verify_email_otp: SELECT of the challenge, and its checks ...
ReadChallenge(c) ==
    /\ posting[c].is = "check"
    /\ IF Judged(c) = "none" THEN Fails(c)
       ELSE /\ posting' = [posting EXCEPT ![c].is = Judged(c), ![c].read = mails[posting[c].ref].wrong]
            /\ UNCHANGED contact
    /\ UNCHANGED <<mails, passes, enquiries>>

\* ... and COMMIT, of what the checks made of it: a challenge is used up by the right code,
\* by coming too late and by one try too many; a wrong try counts from the number read.
SettleChallenge(c) ==
    /\ posting[c].is \in {"late", "right", "wrong"}
    /\ mails' = IF posting[c].is = "wrong"
                THEN [mails EXCEPT ![posting[c].ref].wrong = posting[c].read + 1]
                ELSE [mails EXCEPT ![posting[c].ref].used = TRUE]
    /\ IF posting[c].is = "right"
       THEN /\ passes' = Append(passes, [address |-> posting[c].address, used |-> FALSE,
                                         expired |-> FALSE])
            /\ Replies(c, [NoPost EXCEPT !.is = "post", !.address = posting[c].address,
                                         !.ref = Len(passes) + 1])
       ELSE Fails(c) /\ UNCHANGED passes
    /\ UNCHANGED enquiries

\* submit_contact: SELECT of the grant, good for an enquiry that names its address ...
ReadGrant(c) ==
    /\ posting[c].is = "post"
    /\ LET read == passes[posting[c].ref]
       IN  IF read.used \/ read.expired \/ read.address # posting[c].address THEN Fails(c)
           ELSE /\ posting' = [posting EXCEPT ![c].is = "spend", ![c].read = Len(enquiries)]
                /\ UNCHANGED contact
    /\ UNCHANGED <<mails, passes, enquiries>>

\* ... and COMMIT of its use, before the mails leave; an answer that is lost leaves the
\* visitor to start over.  "since": how many enquiries there were at the SELECT.
SpendGrant(c) ==
    /\ posting[c].is = "spend"
    /\ passes' = [passes EXCEPT ![posting[c].ref].used = TRUE]
    /\ enquiries' = Append(enquiries, [by |-> c[1], address |-> posting[c].address,
                                       pass |-> posting[c].ref, since |-> posting[c].read])
    /\ Replies(c, [NoPost EXCEPT !.is = "accepted"])
    /\ UNCHANGED mails

\* The cooldown of a code is over, then its time; a grant lasts a quarter of an hour.
MailAges(k) ==
    /\ mails[k].age # "expired"
    /\ mails' = [mails EXCEPT ![k].age = IF @ = "recent" THEN "valid" ELSE "expired"]
    /\ UNCHANGED <<contact, posting, passes, enquiries>>

PassExpires(g) ==
    /\ ~passes[g].expired /\ ~passes[g].used
    /\ passes' = [passes EXCEPT ![g].expired = TRUE]
    /\ UNCHANGED <<contact, posting, mails, enquiries>>

EnquiryNext ==
    \/ \E v \in Visitors :
         \/ \E a \in Mailboxes : RequestCode(v, a)
         \/ \E code \in 0..Len(mails) : EnterCode(v, code)
         \/ AskCode(v) \/ GoBack(v) \/ CountdownEnds(v) \/ ShowSent(v) \/ RequestRepeated(v)
    \/ \E c \in Connections :
         \/ BeginMail(c) \/ CommitMail(c) \/ ReadChallenge(c) \/ SettleChallenge(c)
         \/ ReadGrant(c) \/ SpendGrant(c) \/ RequestLost(c)
    \/ \E k \in DOMAIN mails : MailAges(k)
    \/ \E g \in DOMAIN passes : PassExpires(g)

EnquirySpec == EnquiryInit /\ [][EnquiryNext]_enquiryVars

(***************************************************************************)
(* Properties.                                                             *)
(***************************************************************************)
\* "Requires email verification grant" (contact.py 45): an accepted enquiry names an
\* address whose mail its sender reads, however requests overlap, are repeated or lost, the
\* countdown ends and visitors go back.  A grant that was used is not used again: two
\* enquiries share one only when they overlap, the later one having been looked up before the
\* earlier one was committed (contact.py 51-64: no lock on the grant).
EnquiryWasVerified ==
    /\ \A n \in DOMAIN enquiries : enquiries[n].address \in ReadBy[enquiries[n].by]
    /\ \A m, n \in DOMAIN enquiries :
         m < n /\ enquiries[m].pass = enquiries[n].pass => enquiries[n].since < m

\* What a request p refers to was sent or granted, and a code that is checked is one its
\* visitor read; no enquiry up to the look-up of a grant was on that grant.
PostRefers(v, p) ==
    /\ p.is \in {"ask", "asked"} => p.address \in Mailboxes
    /\ p.is = "asked" => p.read <= Len(mails)
    /\ p.is \in {"mailed", "check", "late", "right", "wrong"} => p.ref \in DOMAIN mails
    /\ p.is = "check" /\ p.code # 0 => p.code \in DOMAIN mails /\ mails[p.code].address \in ReadBy[v]
    /\ p.is = "wrong" => p.read < MaxWrong
    /\ p.is \in {"right", "post", "spend"} => p.address \in ReadBy[v] \cap Mailboxes
    /\ p.is \in {"post", "spend"} => p.ref \in DOMAIN passes
    /\ p.is = "spend" => /\ p.read <= Len(enquiries)
                         /\ \A m \in DOMAIN enquiries : enquiries[m].pass = p.ref => p.read < m

\* The challenge a page asks about was sent.
ChallengeSent(c) == c.challenge <= Len(mails) /\ (c.step = "OTP" => c.challenge # 0)

\* An inductive invariant: an enquiry took its grant.
EnquiryInv ==
    /\ EnquiryTypeOK
    /\ \A c \in Connections : PostRefers(c[1], posting[c])
    /\ \A v \in Visitors : ChallengeSent(contact[v])
    /\ Len(mails) <= MaxMails
    /\ \A n \in DOMAIN enquiries : passes[enquiries[n].pass].used
    /\ EnquiryWasVerified
=============================================================================
