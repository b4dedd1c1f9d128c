------------------------------ MODULE Invites ------------------------------
(***************************************************************************)
(* What a mail says: its MIME parts, the calendar in it, who sent it, and  *)
(* whom the policy lets it concern (packages/invite-parser,                *)
(* packages/recipient-policy, the email worker's senderAuthentication.ts   *)
(* and the scheduler's attendees.ts).  No state: operators on one mail.    *)
(*                                                                         *)
(* Transfer encodings, charsets, ICS syntax and time zones are abstracted: *)
(* a part is read to the calendar block and the Teams link in it, a date   *)
(* to its day, a domain to its labels.                                     *)
(***************************************************************************)
EXTENDS Naturals, FiniteSetsExt, SequencesExt

CONSTANTS Message,          \* mails, by the hash of their bytes
          Mail,             \* what they contain
          None,             \* an absent header, property, part or link
          Recorders,        \* settings.recorderEmail and its aliases
          AllowedDomains,   \* settings.allowedDomains
          AllowSubdomains,  \* settings.policy.allowSubdomains
          OrganizerOnly     \* settings.policy.distribution = "organizer_only"

(* An address has a domain, a sequence of labels that may be empty.  A mail *)
(* has: from and to (its envelope), headers (names to addresses), results   *)
(* (Authentication-Results), and parts: the leaves of its MIME tree in      *)
(* order, each with its depth, its type, whether it is encoded, and the     *)
(* calendar and the Teams link it contains.                                 *)
Leaves == UNION {ToSet(Mail[m].parts) : m \in Message}

ASSUME InvitesAssumption ==
    /\ AllowSubdomains \in BOOLEAN /\ OrganizerOnly \in BOOLEAN
    /\ DOMAIN Mail = Message /\ None \notin Leaves /\ None # "CANCEL"
    /\ \A m \in Message : Mail[m].parts \in Seq(Leaves) \ {<<>>}

MAX_MULTIPART_DEPTH == 5

ItemAt(seq, i) == IF i = 0 THEN None ELSE seq[i]
FirstIn(seq, Test(_)) == ItemAt(seq, SelectInSeq(seq, Test))
FieldOf(part, field) == IF part = None THEN None ELSE part[field]

----------------------------------------------------------------------------
(* mime.ts                                                                  *)

Multipart(mail) == Head(mail.parts).depth > 0

(* The walk down the tree stops at its maximal depth.                       *)
InReach(part) == part.depth <= MAX_MULTIPART_DEPTH

PartsInReach(mail) == SelectSeq(mail.parts, InReach)

IsCalendar(part) == InReach(part) /\ part.type = "calendar"

(* The first text/calendar part, or a bare block anywhere in the raw mail.  *)
ExtractCalendarText(mail) ==
    LET calendar == FieldOf(FirstIn(mail.parts, IsCalendar), "calendar")
        bare == FirstIn(mail.parts, LAMBDA p : ~p.encoded /\ p.calendar # None)
    IN IF calendar # None THEN calendar ELSE FieldOf(bare, "calendar")

(* The link in the text parts, or in the raw body when there are none.      *)
LinkInBody(mail) ==
    LET texts == SelectSeq(PartsInReach(mail), LAMBDA p : p.type = "text")
        read == IF ~Multipart(mail) THEN mail.parts
                ELSE IF texts # <<>> THEN texts
                ELSE SelectSeq(mail.parts, LAMBDA p : ~p.encoded)
    IN FieldOf(FirstIn(read, LAMBDA p : p.link # None), "link")

Header(mail, name) == IF name \in DOMAIN mail.headers THEN mail.headers[name] ELSE <<>>

FirstAddress(mail, name, fallback) ==
    LET list == Header(mail, IF name \in DOMAIN mail.headers THEN name ELSE fallback)
    IN IF list = <<>> THEN None ELSE Head(list)

----------------------------------------------------------------------------
(* parseIcs.ts                                                              *)

(* normalizeAttendees: no address without an @.                             *)
Addresses(list) == {a \in ToSet(list) : a.domain # <<>>}

ClassifyMethod(method) ==
    IF method \in {None, "REQUEST", "PUBLISH"} THEN "request"
    ELSE IF method = "CANCEL" THEN "cancel" ELSE "other"

(* Every event must be complete.                                            *)
ReadableIfComplete(v, kind) ==
    /\ {"UID", "SUMMARY", "DTSTART", "DTEND", "ORGANIZER"} \subseteq v.has
    /\ v.organizer.domain # <<>>

(* A VEVENT without its UID cannot be read, nor can one without its summary, *)
(* times or organizer, unless it is a cancellation.                         *)
Readable(v, kind) ==
    /\ "UID" \in v.has
    /\ kind # "cancel" => /\ {"SUMMARY", "DTSTART", "DTEND", "ORGANIZER"} \subseteq v.has
                          /\ v.organizer.domain # <<>>

(* Periods are passed over.                                                 *)
ReadDateList(dates) == {date.day : date \in {d \in dates : ~d.period}}

ParseEventBlock(v) ==
    [uid |-> v.uid, recurrenceId |-> v.recurrenceId, sequence |-> v.sequence,
     start |-> v.start, end |-> v.end, organizer |-> v.organizer, link |-> v.link,
     attendees |-> Addresses(v.attendees),
     days |-> v.rrule \cup ReadDateList(v.rdates), exdates |-> ReadDateList(v.exdates)]

ParseCalendar(calendar) ==
    LET kind == ClassifyMethod(calendar.method)
    IN [kind |-> kind,
        readable |-> \A v \in ToSet(calendar.events) : Readable(v, kind),
        events |-> [i \in DOMAIN calendar.events |-> ParseEventBlock(calendar.events[i])]]

----------------------------------------------------------------------------
(* parseIncomingInvite.ts                                                   *)

HeaderAttendees(mail) ==
    Addresses(Header(mail, "to") \o Header(mail, "cc") \o Header(mail, "bcc"))

Unusable(why) == [parse |-> why]

IsMaster(event) == event.recurrenceId = None
IsOverride(event) == ~IsMaster(event)

(* A meeting from a link alone is a series of its own, that starts now.     *)
ParseLinkOnlyInvite(mail, sender) ==
    IF LinkInBody(mail) = None THEN Unusable("error")
    ELSE [parse |-> "ok", kind |-> "request", uid |-> LinkInBody(mail), link |-> LinkInBody(mail),
          organizer |-> sender, attendees |-> HeaderAttendees(mail),
          master |-> None, overrides |-> <<>>]

(* The primary event is the master, or the first one.                       *)
PrimaryEvent(events) == Head(SelectSeq(events, IsMaster) \o events)

(* It says what the mail is about.  A cancellation needs no link.           *)
ParseCalendarInvite(mail, calendar) ==
    LET master == FirstIn(calendar.events, IsMaster)
        primary == PrimaryEvent(calendar.events)
        link == IF primary.link # None THEN primary.link ELSE LinkInBody(mail)
    IN IF link = None /\ calendar.kind = "request" THEN Unusable("no_teams_link")
       ELSE [parse |-> "ok", kind |-> calendar.kind, uid |-> primary.uid, link |-> link,
             organizer |-> primary.organizer,
             attendees |-> primary.attendees \cup HeaderAttendees(mail),
             master |-> master, overrides |-> SelectSeq(calendar.events, IsOverride)]

Sender(mail) == FirstAddress(mail, "from", "sender")
Recipient(mail) == FirstAddress(mail, "to", "delivered-to")

ParseIncomingInvite(mail) ==
    LET text == ExtractCalendarText(mail)
        calendar == ParseCalendar(text)
    IN IF Sender(mail) = None \/ Recipient(mail) = None THEN Unusable("error")
       ELSE IF text = None THEN ParseLinkOnlyInvite(mail, Sender(mail))
       ELSE IF ~calendar.readable THEN Unusable("error")
       ELSE ParseCalendarInvite(mail, calendar)

(* Of every mail.                                                           *)
Invite == [m \in Message |-> ParseIncomingInvite(Mail[m])]

----------------------------------------------------------------------------
(* Who may send, and who may receive.                                       *)

(* senderAuthentication.ts: relaxed alignment.                              *)
DomainsAligned(authenticated, claimed) ==
    IsSuffix(authenticated, claimed) \/ IsSuffix(claimed, authenticated)

VerifySenderAuthentication(mail) ==
    \/ mail.results = None
    \/ /\ mail.from.domain # <<>>
       /\ \/ mail.results.dmarc
          \/ \E domain \in {mail.results.spf, mail.results.dkim} \ {None} :
                DomainsAligned(domain, mail.from.domain)

(* allowedDomains.ts; an address needs a domain of two labels.              *)
IsAllowedDomain(domain) ==
    \E allowed \in AllowedDomains :
       domain = allowed \/ (AllowSubdomains /\ IsSuffix(allowed, domain))

IsAllowed(address) == Len(address.domain) >= 2 /\ IsAllowedDomain(address.domain)

(* The mail's own addressees count, the recorder among them.                *)
HasEligibleRecipient(invite) ==
    \E address \in {invite.organizer} \cup invite.attendees : IsAllowed(address)

(* attendees.ts: the rows of a VEVENT, and who of them gets the recap.      *)
ComputeAttendeeRows(event) ==
    [address \in ({event.organizer} \cup event.attendees) \ Recorders |->
       [isExternal |-> ~IsAllowed(address),
        recipientEligible |-> /\ IsAllowed(address)
                              /\ ~(OrganizerOnly /\ address # event.organizer)]]
============================================================================
