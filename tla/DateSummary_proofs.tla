------------------------- MODULE DateSummary_proofs -------------------------
(***************************************************************************)
(* Proofs about DateSummary, for a clock of any length and whatever staff  *)
(* and the learner change meanwhile.                                       *)
(***************************************************************************)
EXTENDS DateSummary, TLAPS

\* The page is at this property of a block that is shown, or past it.
AtTitle     == {"title", "description", "css_class", "link", "link_text", "shown"}
Page        == {"date"} \cup AtTitle
Untitled    == {"is_enabled", "enrolment", "status", "date", "title"}
PastTitle   == {"description", "css_class", "link", "link_text", "shown"}
PastText    == {"css_class", "link", "link_text", "shown"}
PastClass   == {"link", "link_text", "shown"}
PastLink    == {"link_text", "shown"}

\* What is_enabled has read and the block keeps.
CacheInv ==
    /\ opened <= now
    /\ pc \in {"enrolment", "status"} =>
         kind = "VerificationDeadlineDate" /\ cache.date \in Times
    /\ pc \in Page /\ kind # "TodaysDate" => cache.date \in Times
    /\ pc \in Page /\ kind = "VerificationDeadlineDate" => cache.status \in NeedsVerification
    /\ pc \in Page /\ kind \in {"CourseStartDate", "VerifiedUpgradeDeadlineDate"} =>
         opened <= cache.date
    /\ pc # "error"

\* The urgency the block has before its deadline.
Early == IF cache.status = "must_reverify" THEN "retry" ELSE "upcoming"

\* Each part of a deadline's block that says it has passed was read when it
\* had, and the parts read later agree.
PartsInv ==
    kind = "VerificationDeadlineDate" =>
      /\ pc \in Untitled => context.title = ""
      /\ pc \in PastTitle /\ context.title = "missed" => cache.date <= now
      /\ pc \in PastText =>
           /\ context.title = "missed" => context.description = "missed"
           /\ context.description = "missed" => cache.date <= now
      /\ pc \in PastClass =>
           /\ context.description = "missed" => context.css_class = "passed"
           /\ context.css_class \in {"passed", Early}
           /\ context.css_class = "passed" => cache.date <= now
      /\ pc \in PastLink =>
           /\ context.css_class = "passed" => context.link = ""
           /\ context.link \in {"", LinkTable[Early].link}
           /\ context.link = "" => cache.date <= now
      /\ pc = "shown" =>
           /\ context.link = "" => context.link_text = "Learn More"
           /\ context.link_text \in {"Learn More", LinkTable[Early].text}

IInv == TypeOK /\ CacheInv /\ PartsInv

-----------------------------------------------------------------------------
\* Once is_enabled has let a block pass, its date is the one it read then.
LEMMA KeptDate ==
    ASSUME TypeOK, kind # "TodaysDate", cache.date \in Times
    PROVE  Date = cache.date /\ (HasPassed <=> cache.date <= now)
<1>1. cache.date # Unread /\ cache.date # NoDate
  BY ConstantsAssumption DEF Times
<1>2. Date = cache.date
  BY <1>1 DEF Date
<1> QED
  BY <1>1, <1>2 DEF HasPassed

LEMMA DateType == TypeOK => Date \in Dates
BY ConstantsAssumption DEF TypeOK, Date, Dates, Kinds

LEMMA KeptStatus ==
    ASSUME cache.status \in Statuses
    PROVE  Status = cache.status
BY ConstantsAssumption DEF Status

LEMMA StatusType == TypeOK => Status \in Statuses
BY DEF TypeOK, Status

\* The three urgencies, and that of a block whose date and status are kept.
LEMMA TheTable ==
    /\ LinkTable["passed"].link = "" /\ LinkTable["passed"].text = "Learn More"
    /\ LinkTable["retry"].link = "reverify"
    /\ LinkTable["retry"].text = "Retry Verification"
    /\ LinkTable["upcoming"].link = "verify_now"
    /\ LinkTable["upcoming"].text = "Verify My Identity"
BY DEF LinkTable

LEMMA KeptUrgency ==
    ASSUME TypeOK, kind = "VerificationDeadlineDate",
           cache.date \in Times, cache.status \in NeedsVerification
    PROVE  /\ Urgency = IF cache.date <= now THEN "passed" ELSE Early
           /\ Early \in {"retry", "upcoming"}
BY KeptDate, KeptStatus DEF Urgency, Early, NeedsVerification, Statuses

LEMMA DistanceType ==
    ASSUME NEW d \in Times, now \in Times
    PROVE  Distance(d) \in Times
BY ConstantsAssumption DEF Distance, Times

LEMMA ClockType == TypeOK => now \in Int /\ opened \in Int
<1>1. TypeOK => now \in Times /\ opened \in Times
  BY DEF TypeOK
<1> QED
  BY <1>1, ConstantsAssumption DEF Times

LEMMA ContextType == NoContext \in Contexts
<1>1. 0 \in Times
  BY ConstantsAssumption DEF Times
<1> QED
  BY <1>1 DEF NoContext, Contexts

-----------------------------------------------------------------------------
LEMMA InitInv == Init => IInv
<1> SUFFICES ASSUME Init PROVE IInv
  OBVIOUS
<1>1. TypeOK
  <2>1. 0 \in Times
    BY ConstantsAssumption DEF Times
  <2> QED
    BY <2>1, ContextType DEF Init, TypeOK, Kinds
<1>2. CacheInv /\ PartsInv
  BY DEF Init, CacheInv, PartsInv, Page, AtTitle, Untitled, PastTitle, PastText, PastClass, PastLink
<1> QED
  BY <1>1, <1>2 DEF IInv

\* A block that has been opened, with nothing of it read.
LEMMA OpenInv == IInv /\ Open => IInv'
<1> SUFFICES ASSUME IInv, Open PROVE IInv'
  OBVIOUS
<1>1. /\ TypeOK /\ pc' = "is_enabled" /\ kind' \in Kinds /\ opened' = now
      /\ context' = NoContext /\ UNCHANGED <<now, stored>>
  BY DEF IInv, Open
<1>2. cache' \in [date : Dates \cup {Unread}, status : Statuses \cup {Unread}]
  BY <1>1 DEF Open, TypeOK
<1>3. TypeOK'
  BY <1>1, <1>2, ContextType DEF TypeOK, Properties
<1>4. now <= now
  BY <1>1, ClockType
<1>5. CacheInv' /\ PartsInv'
  BY <1>1, <1>4
  DEF CacheInv, PartsInv, Page, AtTitle, Untitled, PastTitle, PastText, PastClass, PastLink,
      NoContext
<1> QED
  BY <1>3, <1>5 DEF IInv

LEMMA IsEnabledInv == IInv /\ IsEnabled => IInv'
<1> SUFFICES ASSUME IInv, IsEnabled PROVE IInv'
  OBVIOUS
<1>1. TypeOK /\ pc = "is_enabled" /\ Date \in Dates
  BY DateType DEF IInv, IsEnabled
<1>2. /\ pc' \in {"hidden", "enrolment", "date"}
      /\ pc' = "enrolment" => kind = "VerificationDeadlineDate" /\ Date # NoDate
      /\ pc' = "date" => kind # "VerificationDeadlineDate" /\ Shown
      /\ kind # "TodaysDate" => cache' = [cache EXCEPT !.date = Date]
      /\ kind = "TodaysDate" => cache' = cache
      /\ UNCHANGED <<now, stored, kind, opened, context>>
  BY <1>1 DEF IsEnabled, Is, TypeOK
<1>3. TypeOK'
  <2>1. cache' \in [date : Dates \cup {Unread}, status : Statuses \cup {Unread}]
    BY <1>1, <1>2 DEF TypeOK
  <2>2. pc' \in Properties \cup {"idle", "hidden", "shown", "error"}
    BY <1>2 DEF Properties
  <2> QED
    BY <1>1, <1>2, <2>1, <2>2 DEF TypeOK
<1>4. pc' = "date" /\ kind # "TodaysDate" => Date # NoDate
  BY <1>2 DEF Shown, Is
<1>5. pc' = "date" /\ kind \in {"CourseStartDate", "VerifiedUpgradeDeadlineDate"} => now <= Date
  BY <1>2 DEF Shown, Is
<1>6. kind # "TodaysDate" => cache'.date = Date
  BY <1>1, <1>2 DEF TypeOK
<1>7. Date # NoDate => Date \in Times
  BY <1>1 DEF Dates
<1>8. CacheInv'
  <2>1. opened <= now /\ now \in Int /\ opened \in Int
    BY <1>1, ClockType DEF IInv, CacheInv
  <2>2. pc' = "enrolment" => kind = "VerificationDeadlineDate" /\ cache'.date \in Times
    BY <1>2, <1>6, <1>7
  <2>3. pc' = "date" /\ kind # "TodaysDate" => cache'.date \in Times
    BY <1>4, <1>6, <1>7
  <2>4. pc' = "date" /\ kind \in {"CourseStartDate", "VerifiedUpgradeDeadlineDate"}
          => opened <= cache'.date
    BY <1>4, <1>5, <1>6, <1>7, <2>1, ConstantsAssumption DEF Times
  <2> QED
    BY <1>2, <2>1, <2>2, <2>3, <2>4 DEF CacheInv, Page, AtTitle
<1>9. PartsInv'
  BY <1>1, <1>2 DEF IInv, PartsInv, Untitled, PastTitle, PastText, PastClass, PastLink
<1> QED
  BY <1>3, <1>8, <1>9 DEF IInv

LEMMA EnrolmentInv == IInv /\ Enrolment => IInv'
BY DEF IInv, Enrolment, TypeOK, Properties, CacheInv, PartsInv, Page, AtTitle, Untitled, PastTitle,
   PastText, PastClass, PastLink

LEMMA VerificationInv == IInv /\ Verification => IInv'
<1> SUFFICES ASSUME IInv, Verification PROVE IInv'
  OBVIOUS
<1>1. /\ TypeOK /\ CacheInv /\ pc = "status" /\ Status \in Statuses
      /\ pc' \in {"date", "hidden"} /\ (pc' = "date" => Status \in NeedsVerification)
      /\ cache' = [cache EXCEPT !.status = Status]
      /\ UNCHANGED <<now, stored, kind, opened, context>>
  BY StatusType DEF IInv, Verification
<1>2. cache'.status = Status /\ cache'.date = cache.date
  BY <1>1 DEF TypeOK
<1>3. TypeOK'
  BY <1>1 DEF TypeOK, Properties
<1>4. CacheInv'
  BY <1>1, <1>2 DEF CacheInv, Page, AtTitle
<1>5. PartsInv'
  BY <1>1 DEF IInv, PartsInv, Untitled, PastTitle, PastText, PastClass, PastLink
<1> QED
  BY <1>3, <1>4, <1>5 DEF IInv

-----------------------------------------------------------------------------
\* The properties get_context reads, one step each.

\* Reading changes neither the block nor what it keeps.
LEMMA ReadKeeps ==
    ASSUME IInv, NEW property \in Page, NEW following \in Page, NEW value \in Contexts,
           Read(property, following, value)
    PROVE  TypeOK' /\ CacheInv'
<1>1. TypeOK'
  <2>1. pc' \in Properties \cup {"idle", "hidden", "shown", "error"}
    BY DEF Read, Page, AtTitle, Properties
  <2> QED
    BY <2>1 DEF IInv, TypeOK, Read
<1>2. CacheInv'
  BY DEF IInv, CacheInv, Read, Page, AtTitle
<1> QED
  BY <1>1, <1>2

\* What a block with a deadline knows while it is rendered.
LEMMA Known ==
    ASSUME IInv, pc \in Page, kind = "VerificationDeadlineDate"
    PROVE  /\ HasPassed <=> cache.date <= now
           /\ Urgency = IF cache.date <= now THEN "passed" ELSE Early
           /\ Early \in {"retry", "upcoming"}
BY KeptDate, KeptUrgency DEF IInv, CacheInv

LEMMA WithDistance ==
    ASSUME NEW c \in Contexts, NEW d \in Times, NEW b \in BOOLEAN
    PROVE  [c EXCEPT !.distance = d, !.ahead = b] \in Contexts
BY DEF Contexts

LEMMA DateTextInv == IInv /\ DateText => IInv'
<1> SUFFICES ASSUME IInv, DateText PROVE IInv'
  OBVIOUS
<1> DEFINE value == IF Is("TodaysDate") \/ Date = NoDate THEN context
                    ELSE [context EXCEPT !.distance = Distance(Date), !.ahead = now <= Date]
<1>1. Read("date", "title", value)
  BY DEF DateText
<1>2. value \in Contexts
  <2>1. context \in Contexts /\ now \in Times
    BY DEF IInv, TypeOK
  <2>2. Date # NoDate => Distance(Date) \in Times
    BY <2>1, DateType, DistanceType DEF IInv, Dates
  <2>3. (now <= Date) \in BOOLEAN
    OBVIOUS
  <2> QED
    BY <2>1, <2>2, <2>3, WithDistance
<1>3. value.title = context.title
  BY DEF IInv, TypeOK, Contexts
<1> HIDE DEF value
<1>4. TypeOK' /\ CacheInv'
  BY <1>1, <1>2, ReadKeeps DEF Page, AtTitle
<1>5. PartsInv'
  BY <1>1, <1>3 DEF IInv, Read, PartsInv, Untitled, PastTitle, PastText, PastClass, PastLink
<1> QED
  BY <1>4, <1>5 DEF IInv

LEMMA TitleInv == IInv /\ Title => IInv'
<1> SUFFICES ASSUME IInv, Title PROVE IInv'
  OBVIOUS
<1> DEFINE value == IF Is("VerificationDeadlineDate") /\ HasPassed
                    THEN [context EXCEPT !.title = "missed"] ELSE context
<1>1. Read("title", "description", value)
  BY DEF Title
<1>2. value \in Contexts
  BY DEF IInv, TypeOK, Contexts
<1>3. /\ kind' = kind /\ pc = "title" /\ pc' = "description"
      /\ context' = value /\ cache' = cache /\ now' = now
  BY <1>1 DEF Read
<1>4. PartsInv'
  <2>1. kind = "VerificationDeadlineDate" /\ value.title = "missed" => cache.date <= now
    BY <1>3, Known DEF IInv, PartsInv, Untitled, Page, AtTitle, Is, TypeOK, Contexts
  <2> QED
    BY <1>3, <2>1 DEF PartsInv, Untitled, PastTitle, PastText, PastClass, PastLink
<1> HIDE DEF value
<1>5. TypeOK' /\ CacheInv'
  BY <1>1, <1>2, ReadKeeps DEF Page, AtTitle
<1> QED
  BY <1>4, <1>5 DEF IInv

LEMMA DescriptionInv == IInv /\ Description => IInv'
<1> SUFFICES ASSUME IInv, Description PROVE IInv'
  OBVIOUS
<1> DEFINE text == CASE Is("CourseEndDate") /\ Date # NoDate ->
                          IF now <= Date THEN "before" ELSE "archived"
                     [] Is("VerificationDeadlineDate") -> IF HasPassed THEN "missed" ELSE "before"
                     [] OTHER -> ""
           value == [context EXCEPT !.description = text]
\* None is never compared: the block was shown because it has a date.
<1>1. ~ (Is("CourseEndDate") /\ Date = NoDate)
  <2>1. Is("CourseEndDate") => Date \in Times
    BY KeptDate DEF IInv, CacheInv, Description, Read, Is, Page, AtTitle
  <2> QED
    BY <2>1, ConstantsAssumption DEF Times
<1>2. Read("description", "css_class", value)
  BY <1>1 DEF Description
<1>3. text \in {"", "missed", "before", "archived"}
  OBVIOUS
<1>4. kind = "VerificationDeadlineDate" => text = IF HasPassed THEN "missed" ELSE "before"
  BY DEF Is
<1> HIDE DEF text
<1>5. value \in Contexts /\ value.description = text /\ value.title = context.title
  BY <1>3 DEF IInv, TypeOK, Contexts
<1> HIDE DEF value
<1>6. TypeOK' /\ CacheInv'
  BY <1>2, <1>5, ReadKeeps DEF Page, AtTitle
<1>7. PartsInv'
  <2>1. /\ kind' = kind /\ pc = "description" /\ pc' = "css_class"
        /\ context' = value /\ cache' = cache /\ now' = now
    BY <1>2 DEF Read
  <2>2. kind = "VerificationDeadlineDate" =>
          /\ HasPassed <=> cache.date <= now
          /\ context.title = "missed" => cache.date <= now
    BY <2>1, Known DEF IInv, PartsInv, PastTitle, Page, AtTitle
  <2>3. kind = "VerificationDeadlineDate" =>
          /\ value.title = "missed" => value.description = "missed"
          /\ value.description = "missed" => cache.date <= now
    BY <1>4, <1>5, <2>2
  <2> QED
    BY <2>1, <2>3 DEF PartsInv, Untitled, PastTitle, PastText, PastClass, PastLink
<1> QED
  BY <1>6, <1>7 DEF IInv

LEMMA CssClassInv == IInv /\ CssClass => IInv'
<1> SUFFICES ASSUME IInv, CssClass PROVE IInv'
  OBVIOUS
<1> DEFINE value == IF Is("VerificationDeadlineDate")
                    THEN [context EXCEPT !.css_class = Urgency] ELSE context
<1>1. Read("css_class", "link", value)
  BY DEF CssClass
<1>2. /\ kind' = kind /\ pc = "css_class" /\ pc' = "link"
      /\ context' = value /\ cache' = cache /\ now' = now
  BY <1>1 DEF Read
<1>3. Urgency \in {"passed", "retry", "upcoming"}
  BY DEF Urgency
<1>4. /\ value \in Contexts /\ value.title = context.title
      /\ value.description = context.description
      /\ kind = "VerificationDeadlineDate" => value.css_class = Urgency
  BY <1>3 DEF IInv, TypeOK, Contexts, Is
<1> HIDE DEF value
<1>5. TypeOK' /\ CacheInv'
  BY <1>1, <1>4, ReadKeeps DEF Page, AtTitle
<1>6. Early' = Early
  BY <1>2 DEF Early
<1>7. PartsInv'
  <2> SUFFICES ASSUME kind = "VerificationDeadlineDate" PROVE PartsInv'
    BY <1>2 DEF PartsInv
  <2>1. /\ Urgency = IF cache.date <= now THEN "passed" ELSE Early
        /\ Early \in {"retry", "upcoming"}
    BY <1>2, Known DEF Page, AtTitle
  <2>2. /\ context.title = "missed" => context.description = "missed"
        /\ context.description = "missed" => cache.date <= now
    BY <1>2 DEF IInv, PartsInv, PastText
  <2> QED
    BY <1>2, <1>4, <1>6, <2>1, <2>2
    DEF PartsInv, Untitled, PastTitle, PastText, PastClass, PastLink
<1> QED
  BY <1>5, <1>7 DEF IInv

LEMMA LinkInv == IInv /\ Link => IInv'
<1> SUFFICES ASSUME IInv, Link PROVE IInv'
  OBVIOUS
<1> DEFINE place == CASE Is("VerificationDeadlineDate")    -> LinkTable[Urgency].link
                      [] Is("VerifiedUpgradeDeadlineDate") -> "upgrade"
                      [] OTHER                             -> ""
           value == [context EXCEPT !.link = place]
<1>1. Read("link", "link_text", value)
  BY DEF Link
<1>2. /\ kind' = kind /\ pc = "link" /\ pc' = "link_text"
      /\ context' = value /\ cache' = cache /\ now' = now
  BY <1>1 DEF Read
<1>3. Urgency \in {"passed", "retry", "upcoming"}
  BY DEF Urgency
<1>4. LinkTable[Urgency].link \in {"", "reverify", "verify_now"}
  BY <1>3, TheTable
<1>5. place \in {"", "reverify", "verify_now", "upgrade"}
  BY <1>4
<1>6. kind = "VerificationDeadlineDate" => place = LinkTable[Urgency].link
  BY DEF Is
<1> HIDE DEF place
<1>7. /\ value \in Contexts /\ value.title = context.title
      /\ value.description = context.description
      /\ value.css_class = context.css_class /\ value.link = place
  BY <1>5 DEF IInv, TypeOK, Contexts
<1> HIDE DEF value
<1>8. TypeOK' /\ CacheInv'
  BY <1>1, <1>7, ReadKeeps DEF Page, AtTitle
<1>9. Early' = Early
  BY <1>2 DEF Early
<1>10. PartsInv'
  <2> SUFFICES ASSUME kind = "VerificationDeadlineDate" PROVE PartsInv'
    BY <1>2 DEF PartsInv
  <2>1. /\ Urgency = IF cache.date <= now THEN "passed" ELSE Early
        /\ Early \in {"retry", "upcoming"}
    BY <1>2, Known DEF Page, AtTitle
  <2>2. /\ context.title = "missed" => context.description = "missed"
        /\ context.description = "missed" => cache.date <= now
        /\ context.description = "missed" => context.css_class = "passed"
        /\ context.css_class \in {"passed", Early}
        /\ context.css_class = "passed" => cache.date <= now
    BY <1>2 DEF IInv, PartsInv, PastText, PastClass
  <2>3. /\ place \in {"", LinkTable[Early].link}
        /\ place = "" <=> cache.date <= now
    BY <1>6, <2>1, TheTable
  <2> QED
    BY <1>2, <1>7, <1>9, <2>2, <2>3
    DEF PartsInv, Untitled, PastTitle, PastText, PastClass, PastLink
<1> QED
  BY <1>8, <1>10 DEF IInv

LEMMA LinkTextInv == IInv /\ LinkText => IInv'
<1> SUFFICES ASSUME IInv, LinkText PROVE IInv'
  OBVIOUS
<1> DEFINE text == CASE Is("VerificationDeadlineDate")    -> LinkTable[Urgency].text
                     [] Is("VerifiedUpgradeDeadlineDate") -> "Upgrade"
                     [] OTHER                             -> ""
           value == [context EXCEPT !.link_text = text]
<1>1. Read("link_text", "shown", value)
  BY DEF LinkText
<1>2. /\ kind' = kind /\ pc = "link_text" /\ pc' = "shown"
      /\ context' = value /\ cache' = cache /\ now' = now
  BY <1>1 DEF Read
<1>3. Urgency \in {"passed", "retry", "upcoming"}
  BY DEF Urgency
<1>4. LinkTable[Urgency].text \in {"Learn More", "Retry Verification", "Verify My Identity"}
  BY <1>3, TheTable
<1>5. text \in {"", "Learn More", "Retry Verification", "Verify My Identity", "Upgrade"}
  BY <1>4
<1>6. kind = "VerificationDeadlineDate" => text = LinkTable[Urgency].text
  BY DEF Is
<1> HIDE DEF text
<1>7. /\ value \in Contexts /\ value.title = context.title
      /\ value.description = context.description /\ value.css_class = context.css_class
      /\ value.link = context.link /\ value.link_text = text
  BY <1>5 DEF IInv, TypeOK, Contexts
<1> HIDE DEF value
<1>8. TypeOK' /\ CacheInv'
  BY <1>1, <1>7, ReadKeeps DEF Page, AtTitle
<1>9. Early' = Early
  BY <1>2 DEF Early
<1>10. PartsInv'
  <2> SUFFICES ASSUME kind = "VerificationDeadlineDate" PROVE PartsInv'
    BY <1>2 DEF PartsInv
  <2>1. /\ Urgency = IF cache.date <= now THEN "passed" ELSE Early
        /\ Early \in {"retry", "upcoming"}
    BY <1>2, Known DEF Page, AtTitle
  <2>2. /\ context.title = "missed" => context.description = "missed"
        /\ context.description = "missed" => cache.date <= now
        /\ context.description = "missed" => context.css_class = "passed"
        /\ context.css_class \in {"passed", Early}
        /\ context.css_class = "passed" => cache.date <= now
        /\ context.css_class = "passed" => context.link = ""
        /\ context.link \in {"", LinkTable[Early].link}
        /\ context.link = "" => cache.date <= now
    BY <1>2 DEF IInv, PartsInv, PastText, PastClass, PastLink
  <2>3. /\ cache.date <= now => text = "Learn More"
        /\ text \in {"Learn More", LinkTable[Early].text}
    BY <1>6, <2>1, TheTable
  <2> QED
    BY <1>2, <1>7, <1>9, <2>2, <2>3
    DEF PartsInv, Untitled, PastTitle, PastText, PastClass, PastLink
<1> QED
  BY <1>8, <1>10 DEF IInv

-----------------------------------------------------------------------------
\* Time goes on: what has passed stays passed.
LEMMA TickInv == IInv /\ Tick => IInv'
<1> SUFFICES ASSUME IInv, Tick PROVE IInv'
  OBVIOUS
<1>1. /\ now \in Times /\ opened \in Times /\ now' = now + 1 /\ now < Horizon
      /\ UNCHANGED <<stored, pc, kind, opened, cache, context>>
  BY DEF IInv, TypeOK, Tick
<1>2. now' \in Times
  BY <1>1, ConstantsAssumption DEF Times
<1>3. \A t \in Times : t <= now => t <= now'
  BY <1>1, ConstantsAssumption DEF Times
<1>4. TypeOK'
  BY <1>1, <1>2 DEF IInv, TypeOK
<1>5. CacheInv'
  BY <1>1, <1>3 DEF IInv, CacheInv
<1>6. PartsInv'
  <2> SUFFICES ASSUME kind = "VerificationDeadlineDate" PROVE PartsInv'
    BY <1>1 DEF PartsInv
  <2>1. Early' = Early
    BY <1>1 DEF Early
  <2>2. CASE pc \in Page
    <3>1. cache.date <= now => cache.date <= now'
      BY <1>3, <2>2 DEF IInv, CacheInv
    <3> QED
      BY <1>1, <2>1, <3>1 DEF IInv, PartsInv
  <2>3. CASE pc \notin Page
    BY <1>1, <2>3 DEF IInv, PartsInv, Page, AtTitle, PastTitle, PastText, PastClass, PastLink
  <2> QED
    BY <2>2, <2>3
<1> QED
  BY <1>4, <1>5, <1>6 DEF IInv

\* The databases change, but not what the block has read.
LEMMA ChangeInv == IInv /\ Change => IInv'
<1> SUFFICES ASSUME IInv, Change PROVE IInv'
  OBVIOUS
<1>1. UNCHANGED <<now, pc, kind, opened, cache, context>>
  BY DEF Change
<1>2. stored' \in [date : Dates, status : Statuses, verified : BOOLEAN]
  BY DEF IInv, TypeOK, Change
<1>3. TypeOK'
  BY <1>1, <1>2 DEF IInv, TypeOK
<1>4. CacheInv' /\ PartsInv'
  BY <1>1 DEF IInv, CacheInv, PartsInv, Early
<1> QED
  BY <1>3, <1>4 DEF IInv

LEMMA NextInv == IInv /\ [Next]_vars => IInv'
<1>1. IInv /\ UNCHANGED vars => IInv'
  BY DEF vars, IInv, TypeOK, CacheInv, PartsInv, Early
<1> QED
  BY <1>1, OpenInv, IsEnabledInv, EnrolmentInv, VerificationInv, DateTextInv, TitleInv,
     DescriptionInv, CssClassInv, LinkInv, LinkTextInv, TickInv, ChangeInv
  DEF Next, Render

\* The inductive invariant holds of every reachable state.
LEMMA Inductive == Spec => []IInv
BY InitInv, NextInv, PTL DEF Spec

-----------------------------------------------------------------------------
\* Every variable keeps its type, for every moment and every change.
THEOREM TypeCorrect == Spec => []TypeOK
BY Inductive, PTL DEF IInv

\* No page asked for after the start of the course, or after the deadline of
\* the upgrade, shows that block (date_summary.py:106-115).
THEOREM PastStaysHidden == Spec => []PastIsHidden
<1>1. IInv => PastIsHidden
  BY DEF IInv, CacheInv, PastIsHidden, Finished, Page, AtTitle
<1> QED
  BY <1>1, Inductive, PTL

\* The comparison in CourseEndDate.description (date_summary.py:172) never meets
\* None, whatever staff do to the course after is_enabled.
THEOREM ComparisonIsSafe == Spec => []NoneIsNeverCompared
<1>1. IInv => NoneIsNeverCompared
  BY DEF IInv, CacheInv, NoneIsNeverCompared
<1> QED
  BY <1>1, Inductive, PTL

\* Of two parts of a block the later one is never the less urgent
\* (date_summary.py:223-277).
THEOREM UrgencyOnlyGrows == Spec => []NeverLessUrgent
<1>1. IInv => NeverLessUrgent
  <2> SUFFICES ASSUME IInv, pc = "shown", kind = "VerificationDeadlineDate",
                      NEW i \in 1 .. 5, NEW j \in 1 .. 5, i < j, SaysPassed[i]
               PROVE  SaysPassed[j]
    BY DEF NeverLessUrgent, Finished
  <2>1. /\ context.title = "missed" => context.description = "missed"
        /\ context.description = "missed" => context.css_class = "passed"
        /\ context.css_class = "passed" => context.link = ""
        /\ context.link = "" => context.link_text = "Learn More"
    BY DEF IInv, PartsInv, PastText, PastClass, PastLink
  <2>2. /\ SaysPassed[1] <=> context.title = "missed"
        /\ SaysPassed[2] <=> context.description = "missed"
        /\ SaysPassed[3] <=> context.css_class = "passed"
        /\ SaysPassed[4] <=> context.link = ""
        /\ SaysPassed[5] <=> context.link_text = "Learn More"
    BY DEF SaysPassed
  <2>3. i = 1 \/ i = 2 \/ i = 3 \/ i = 4
    OBVIOUS
  <2>4. j = 2 \/ j = 3 \/ j = 4 \/ j = 5
    OBVIOUS
  <2>5. CASE i = 1
    BY <2>1, <2>2, <2>4, <2>5
  <2>6. CASE i = 2
    <3>1. j = 3 \/ j = 4 \/ j = 5
      BY <2>6
    <3> QED
      BY <2>1, <2>2, <2>6, <3>1
  <2>7. CASE i = 3
    <3>1. j = 4 \/ j = 5
      BY <2>7
    <3> QED
      BY <2>1, <2>2, <2>7, <3>1
  <2>8. CASE i = 4
    <3>1. j = 5
      BY <2>8
    <3> QED
      BY <2>1, <2>2, <2>8, <3>1
  <2> QED
    BY <2>3, <2>5, <2>6, <2>7, <2>8
<1> QED
  BY <1>1, Inductive, PTL

\* The link and its text are those of the class, or the deadline passed
\* between them (date_summary.py:223-229).
THEOREM LinkAgrees == Spec => []LinkFitsClass
<1>1. IInv => LinkFitsClass
  <2> SUFFICES ASSUME IInv, pc = "shown", kind = "VerificationDeadlineDate"
               PROVE  LinkFitsClass
    BY DEF LinkFitsClass, Finished
  <2>1. /\ context.css_class \in {"passed", Early}
        /\ context.css_class = "passed" => context.link = ""
        /\ context.link \in {"", LinkTable[Early].link}
        /\ context.link = "" => context.link_text = "Learn More"
        /\ context.link_text \in {"Learn More", LinkTable[Early].text}
    BY DEF IInv, PartsInv, PastClass, PastLink
  <2> QED
    BY <2>1 DEF LinkFitsClass
<1> QED
  BY <1>1, Inductive, PTL

-----------------------------------------------------------------------------
(* The comment of date_summary.py:73-76 has the date ahead of the clock;     *)
(* the run dates_relative shows a page where it is not.  Here where that can *)
(* happen.                                                                   *)

\* A date that was not ahead when it was put into words is past for good.
AheadInv ==
    /\ pc \in {"is_enabled", "enrolment", "status", "date"} => context.ahead = TRUE
    /\ pc \in AtTitle /\ context.ahead # TRUE =>
          kind # "TodaysDate" /\ cache.date \in Times /\ cache.date < now

LEMMA AheadNext ==
    ASSUME IInv, AheadInv, [Next]_vars
    PROVE  AheadInv'
<1> USE DEF AheadInv, AtTitle
<1>1. CASE Open
  BY <1>1 DEF Open, NoContext
<1>2. CASE IsEnabled \/ Enrolment \/ Verification
  BY <1>2 DEF IsEnabled, Enrolment, Verification
<1>3. CASE DateText
  <2>1. /\ pc = "date" /\ pc' = "title" /\ UNCHANGED <<now, kind, cache>>
        /\ context.ahead = TRUE /\ context \in Contexts /\ now \in Times
    BY <1>3 DEF DateText, Read, IInv, TypeOK
  <2>2. CASE kind = "TodaysDate"
    BY <1>3, <2>1, <2>2 DEF DateText, Read, Is
  <2>3. CASE kind # "TodaysDate"
    <3>1. cache.date \in Times /\ Date = cache.date /\ Date # NoDate
      BY <2>1, <2>3, KeptDate, ConstantsAssumption DEF IInv, CacheInv, Page, Times
    <3>2. context'.ahead = (now <= cache.date)
      BY <1>3, <2>1, <2>3, <3>1 DEF DateText, Read, Is, Contexts
    <3>3. context'.ahead # TRUE => cache.date < now
      <4>1. ~ (now <= cache.date) => cache.date < now
        BY <2>1, <3>1, ConstantsAssumption DEF Times
      <4> QED
        BY <3>2, <4>1
    <3>4. cache' = cache /\ now' = now /\ kind' = kind
      BY <2>1
    <3> QED
      BY <2>1, <2>3, <3>1, <3>3, <3>4
  <2> QED
    BY <2>2, <2>3
<1>4. CASE Title \/ Description \/ CssClass \/ Link \/ LinkText
  <2>1. /\ pc \in AtTitle /\ pc' \in AtTitle \cup {"error"}
        /\ UNCHANGED <<now, kind, cache>>
    BY <1>4 DEF Title, Description, CssClass, Link, LinkText, Read
  <2>2. context'.ahead = context.ahead
    BY <1>4 DEF Title, Description, CssClass, Link, LinkText, Read, IInv, TypeOK, Contexts
  <2> QED
    BY <2>1, <2>2
<1>5. CASE Tick
  <2>1. now' = now + 1 /\ UNCHANGED <<pc, kind, cache, context>>
    BY <1>5 DEF Tick
  <2>2. ASSUME cache.date \in Times, cache.date < now
        PROVE  cache.date < now + 1
    <3>1. now \in Int /\ cache.date \in Int
      BY <2>2, ConstantsAssumption DEF IInv, TypeOK, Times
    <3> QED
      BY <2>2, <3>1
  <2> QED
    BY <2>1, <2>2
<1>6. CASE Change \/ UNCHANGED vars
  BY <1>6 DEF Change, vars
<1> QED
  BY <1>1, <1>2, <1>3, <1>4, <1>5, <1>6 DEF Next, Render

\* The words of a date are wrong only for the two blocks that stay after their
\* date, the end of the course and the deadline of the verification, or if the date
\* passed between the request and the reading of the clock
\* (date_summary.py:79-87, 106-115).
THEOREM WordsAreWrongOnlyInThePast ==
    Spec => [](\/ RelativeDateAhead
               \/ /\ cache.date < now
                  /\ kind \in {"CourseEndDate", "VerificationDeadlineDate"}
                     \/ opened <= cache.date)
<1>1. Init => AheadInv
  BY DEF Init, AheadInv, AtTitle, NoContext
<1>2. IInv /\ AheadInv /\ [Next]_vars => AheadInv'
  BY AheadNext
<1>3. IInv /\ AheadInv =>
        \/ RelativeDateAhead
        \/ /\ cache.date < now
           /\ kind \in {"CourseEndDate", "VerificationDeadlineDate"} \/ opened <= cache.date
  BY DEF RelativeDateAhead, AheadInv, IInv, TypeOK, CacheInv, Page, AtTitle, Kinds
<1> QED
  BY <1>1, <1>2, <1>3, Inductive, PTL DEF Spec
=============================================================================
