---------------------------- MODULE MCCalendar ----------------------------
(* Small instances of Calendar for TLC: mails about one series.             *)
EXTENDS Calendar, TLC

Address(name, domain) == [name |-> name, domain |-> domain]
Company == <<"company", "com">>
Ann == Address("ann", Company)
Bob == Address("bob", <<"mail">> \o Company)
Eve == Address("eve", <<"else", "org">>)
Recorder == Address("recorder", Company)
Nobody == Address("", <<>>)
Recorder0 == {Recorder}
Company0 == {Company}

Complete == {"UID", "SUMMARY", "DTSTART", "DTEND", "ORGANIZER"}
VEvent == [has |-> Complete, uid |-> "uid", recurrenceId |-> None, sequence |-> 0,
           start |-> 0, end |-> "ten", rrule |-> {0, 2}, rdates |-> {}, exdates |-> {},
           organizer |-> Ann, attendees |-> <<Recorder, Bob, Eve>>, link |-> "teams"]
Stripped == [VEvent EXCEPT !.has = {"UID"}, !.sequence = None, !.rrule = {},
                           !.organizer = Nobody, !.attendees = <<>>, !.link = None]

Text == [depth |-> 1, type |-> "text", encoded |-> FALSE, calendar |-> None, link |-> None]
CalendarPart(method, v) ==
    [Text EXCEPT !.type = "calendar", !.encoded = TRUE,
                 !.calendar = [method |-> method, events |-> <<v>>]]

(* From Ann, to the recorder, with SPF for the domain above hers.           *)
Parts(parts) ==
    [from |-> Ann, to |-> Recorder, headers |-> [from |-> <<Ann>>, to |-> <<Recorder>>],
     results |-> [dmarc |-> FALSE, spf |-> <<"com">>, dkim |-> None], parts |-> parts]
Calendared(method, v) == Parts(<<Text, CalendarPart(method, v)>>)

Period(day) == [day |-> day, period |-> TRUE]
Date(day) == [day |-> day, period |-> FALSE]

Content ==
    [series |-> Calendared("REQUEST", [VEvent EXCEPT !.rrule = {0}, !.rdates = {Date(2), Period(1)}]),
     moved |-> Calendared(None, [VEvent EXCEPT !.sequence = 1, !.rrule = {2},
                                               !.attendees = <<Bob>>]),
     extended |-> Calendared("REQUEST", [VEvent EXCEPT !.sequence = 1, !.end = "noon"]),
     override |-> Calendared("REQUEST", [VEvent EXCEPT !.recurrenceId = 0, !.start = 2]),
     cancel_one |-> Parts(<<[CalendarPart("CANCEL", [Stripped EXCEPT !.recurrenceId = 0])
                             EXCEPT !.depth = 0]>>),
     cancel_all |-> Calendared("CANCEL", [Stripped EXCEPT !.sequence = 1]),
     forged |-> [Calendared("CANCEL", [Stripped EXCEPT !.sequence = 2])
                 EXCEPT !.results.spf = <<"else", "org">>],
     reply |-> Calendared("REPLY", VEvent),
     no_link |-> Calendared("REQUEST", [VEvent EXCEPT !.link = None]),
     outside |-> [Parts(<<[Text EXCEPT !.link = "other"]>>) EXCEPT !.headers.from = <<Eve>>]]

Contents(names) == [m \in names |-> Content[m]]
Mails == {"series", "moved", "override", "cancel_one", "cancel_all", "forged",
          "reply", "no_link", "outside"}
MailsContents == Contents(Mails)
TwoMails == {"series", "extended"}
TwoContents == Contents(TwoMails)

(* Not all of them are unreadable.  Comparing Invite as a whole also lets   *)
(* TLC keep what it parsed, instead of parsing a mail at every use.         *)
ASSUME MailsAreRead == Invite # [m \in Message |-> Unusable("error")]

Symmetry == Permutations(Worker)
============================================================================
