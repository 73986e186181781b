---------------------------- MODULE DateSummary ----------------------------
(***************************************************************************)
(* configs/edx-platform/date_summary.py, this repository's edition of the  *)
(* LMS's module: one block of the dates shown on a course page.  The       *)
(* page asks the block whether it is enabled, and if so for its context,   *)
(* property by property.  Nearly every property reads the clock again, and *)
(* meanwhile staff change deadlines and other requests the learner's       *)
(* enrolment and verification; what is @lazy is read once and kept.        *)
(***************************************************************************)
EXTENDS Integers

CONSTANTS
    Horizon,    \* bound: the last moment of the clock
    NoDate,     \* None: there is no such date
    Unread      \* a lazy property nobody has read yet

Times == 0 .. Horizon
Dates == Times \cup {NoDate}

\* The subclasses of DateSummary.
Kinds == {"TodaysDate", "CourseStartDate", "CourseEndDate",
          "VerifiedUpgradeDeadlineDate", "VerificationDeadlineDate"}

\* Those whose date comes with the course; the others look theirs up.
OfCourse == {"CourseStartDate", "CourseEndDate"}

Statuses == {"none", "expired", "must_reverify", "approved"}
NeedsVerification == {"none", "expired", "must_reverify"}

ASSUME ConstantsAssumption ==
    /\ Horizon \in Nat
    /\ NoDate \notin Int /\ Unread \notin Int /\ NoDate # Unread
    /\ Unread \notin Statuses

\* link_table: text and location for each class of urgency.
LinkTable == [passed   |-> [text |-> "Learn More",          link |-> ""],
              retry    |-> [text |-> "Retry Verification",  link |-> "reverify"],
              upcoming |-> [text |-> "Verify My Identity",  link |-> "verify_now"]]

VARIABLES
    now,        \* the clock
    stored,     \* the databases: the date, the verification, the enrolment
    pc,         \* the property the page reads next
    kind,       \* of the block
    opened,     \* when the page was asked for
    cache,      \* the block's date and verification_status
    context     \* what the template gets

vars == <<now, stored, pc, kind, opened, cache, context>>

Properties == {"is_enabled", "enrolment", "status", "date", "title",
               "description", "css_class", "link", "link_text"}

Contexts == [distance    : Times,
             ahead       : BOOLEAN,
             title       : {"", "missed"},
             description : {"", "missed", "before", "archived"},
             css_class   : {"", "passed", "retry", "upcoming"},
             link        : {"", "reverify", "verify_now", "upgrade"},
             link_text   : {"", "Learn More", "Retry Verification",
                            "Verify My Identity", "Upgrade"}]

NoContext == [distance |-> 0, ahead |-> TRUE, title |-> "", description |-> "",
              css_class |-> "", link |-> "", link_text |-> ""]

TypeOK ==
    /\ now \in Times /\ opened \in Times
    /\ stored \in [date : Dates, status : Statuses, verified : BOOLEAN]
    /\ pc \in Properties \cup {"idle", "hidden", "shown", "error"}
    /\ kind \in Kinds
    /\ cache \in [date : Dates \cup {Unread}, status : Statuses \cup {Unread}]
    /\ context \in Contexts

Init ==
    /\ now = 0 /\ opened = 0
    /\ stored \in [date : Dates, status : Statuses, verified : BOOLEAN]
    /\ pc = "idle"
    /\ kind = "TodaysDate"
    /\ cache = [date |-> Unread, status |-> Unread]
    /\ context = NoContext

-----------------------------------------------------------------------------
\* Mutant: not lazy.
DateAnew == stored.date

\* self.date: for today the clock, else what was read first.
Date == CASE kind = "TodaysDate"   -> now
          [] cache.date # Unread   -> cache.date
          [] OTHER                 -> stored.date

\* Mutant: not lazy.
StatusAnew == stored.status

\* self.verification_status
Status == IF cache.status = Unread THEN stored.status ELSE cache.status

\* deadline_has_passed
HasPassed == Date # NoDate /\ Date <= now

\* Mutant: the status itself.
UrgencyOfStatus == IF HasPassed THEN "passed" ELSE Status

\* The urgency in css_class, computed anew for css_class, link and link_text.
Urgency == IF HasPassed THEN "passed"
           ELSE IF Status = "must_reverify" THEN "retry" ELSE "upcoming"

\* What format_timedelta makes of a difference: its length, not its sign.
Distance(date) == IF date < now THEN now - date ELSE date - now

Is(k) == kind = k

-----------------------------------------------------------------------------
\* The page asks for a block; a course brings its dates along.
Open ==
    /\ pc \in {"idle", "hidden", "shown"}
    /\ pc' = "is_enabled"
    /\ kind' \in Kinds
    /\ opened' = now
    /\ cache' = [date |-> IF kind' \in OfCourse THEN stored.date ELSE Unread,
                 status |-> Unread]
    /\ context' = NoContext
    /\ UNCHANGED <<now, stored>>

\* Mutant: every block is shown that has a date.
ShownIfDated == Date # NoDate

\* Mutant: the end of the course is shown also where there is none.
ShownWithoutEnd == Is("CourseEndDate") \/ (Date # NoDate /\ now <= Date)

\* is_enabled where it depends on the date alone.
Shown == CASE Is("TodaysDate")    -> TRUE
           [] Is("CourseEndDate") -> Date # NoDate
           [] OTHER               -> Date # NoDate /\ now <= Date

IsEnabled ==
    /\ pc = "is_enabled"
    /\ cache' = [cache EXCEPT !.date = IF Is("TodaysDate") THEN @ ELSE Date]
    /\ pc' = IF Is("VerificationDeadlineDate")
               THEN IF Date = NoDate THEN "hidden" ELSE "enrolment"
               ELSE IF Shown THEN "date" ELSE "hidden"
    /\ UNCHANGED <<now, stored, kind, opened, context>>

\* VerificationDeadlineDate.is_enabled goes on: the learner's enrolment ...
Enrolment ==
    /\ pc = "enrolment"
    /\ pc' = IF stored.verified THEN "status" ELSE "hidden"
    /\ UNCHANGED <<now, stored, kind, opened, cache, context>>

\* ... and verification.
Verification ==
    /\ pc = "status"
    /\ cache' = [cache EXCEPT !.status = Status]
    /\ pc' = IF Status \in NeedsVerification THEN "date" ELSE "hidden"
    /\ UNCHANGED <<now, stored, kind, opened, context>>

\* get_context reads one property after the other.
Read(property, following, value) ==
    /\ pc = property
    /\ pc' = following
    /\ context' = value
    /\ UNCHANGED <<now, stored, kind, opened, cache>>

\* "in {relative_date} - {absolute_date}"; today's block shows none.
DateText ==
    Read("date", "title",
         IF Is("TodaysDate") \/ Date = NoDate THEN context
         ELSE [context EXCEPT !.distance = Distance(Date), !.ahead = now <= Date])

Title ==
    Read("title", "description",
         IF Is("VerificationDeadlineDate") /\ HasPassed
           THEN [context EXCEPT !.title = "missed"] ELSE context)

\* CourseEndDate compares with its date, which must not be None.
Description ==
    Read("description", IF Is("CourseEndDate") /\ Date = NoDate THEN "error" ELSE "css_class",
         [context EXCEPT !.description =
            CASE Is("CourseEndDate") /\ Date # NoDate ->
                    IF now <= Date THEN "before" ELSE "archived"
              [] Is("VerificationDeadlineDate") -> IF HasPassed THEN "missed" ELSE "before"
              [] OTHER -> ""])

CssClass ==
    Read("css_class", "link",
         IF Is("VerificationDeadlineDate") THEN [context EXCEPT !.css_class = Urgency]
                                           ELSE context)

Link ==
    Read("link", "link_text",
         [context EXCEPT !.link =
            CASE Is("VerificationDeadlineDate")    -> LinkTable[Urgency].link
              [] Is("VerifiedUpgradeDeadlineDate") -> "upgrade"
              [] OTHER                             -> ""])

LinkText ==
    Read("link_text", "shown",
         [context EXCEPT !.link_text =
            CASE Is("VerificationDeadlineDate")    -> LinkTable[Urgency].text
              [] Is("VerifiedUpgradeDeadlineDate") -> "Upgrade"
              [] OTHER                             -> ""])

Render == DateText \/ Title \/ Description \/ CssClass \/ Link \/ LinkText

-----------------------------------------------------------------------------
\* Meanwhile.
Tick ==
    /\ now < Horizon
    /\ now' = now + 1
    /\ UNCHANGED <<stored, pc, kind, opened, cache, context>>

Change ==
    /\ \/ \E d \in Dates : stored' = [stored EXCEPT !.date = d]
       \/ \E s \in Statuses : stored' = [stored EXCEPT !.status = s]
       \/ \E v \in BOOLEAN : stored' = [stored EXCEPT !.verified = v]
    /\ UNCHANGED <<now, pc, kind, opened, cache, context>>

Next ==
    \/ Open \/ IsEnabled \/ Enrolment \/ Verification \/ Render
    \/ Tick \/ Change

Spec == Init /\ [][Next]_vars

-----------------------------------------------------------------------------
Finished(k) == pc = "shown" /\ kind = k

\* The start of the course and the upgrade offer are not shown by a page that
\* was asked for after their date (date_summary.py:106-115).
PastIsHidden ==
    \A k \in {"CourseStartDate", "VerifiedUpgradeDeadlineDate"} :
        Finished(k) => opened <= cache.date

\* CourseEndDate.description compares the clock with a date that may be None,
\* but a block is asked for its description only if is_enabled found a date,
\* and the course keeps it (date_summary.py:167-175).
NoneIsNeverCompared == pc # "error"

\* The block's five statements about the deadline, in the order they are read.
SaysPassed == <<context.title = "missed", context.description = "missed",
                context.css_class = "passed", context.link = "",
                context.link_text = "Learn More">>

\* The deadline may pass while its block is rendered, and then the block's
\* parts differ; but they differ in one direction only: what follows a part
\* that says the deadline has passed says so too, though staff may extend the
\* deadline at that very moment (date_summary.py:261-263, @lazy).
NeverLessUrgent ==
    Finished("VerificationDeadlineDate") =>
        \A i, j \in 1 .. 5 : i < j /\ SaysPassed[i] => SaysPassed[j]

\* Whoever is asked to retry is never given the link to a first verification,
\* nor the other way round, though the status may change between css_class,
\* link and link_text (date_summary.py:223-229, 274-277).
LinkFitsClass ==
    Finished("VerificationDeadlineDate") =>
        /\ context.link \in {"", LinkTable[context.css_class].link}
        /\ context.link_text \in {"Learn More", LinkTable[context.css_class].text}

\* date_summary.py:73-76: "relative_date is a fuzzy description of the time
\* from now until absolute_date."
RelativeDateAhead == pc = "shown" => context.ahead
=============================================================================
