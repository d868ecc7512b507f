SPECIFICATION ProfileSpec
CONSTANTS
  Days <- MCDays
  Births <- MCBirths
  West = TRUE
  Registrations <- MCRegistrations
  Updates <- MCUpdates
  Requests = {r1}
  Keys = {k1}
  None = None
  Absent = Absent
INVARIANTS ProfileTypeOK BirthDatesAreAdult PeriodsFitTheCalendar ShownVerdictIsOfPicture
PROPERTY CompletedStaysCompleted
CHECK_DEADLOCK FALSE
