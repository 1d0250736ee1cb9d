CONSTANTS
  l1 = l1
  l2 = l2
  r1 = r1
  r2 = r2
  uid1 = uid1
  Leads = {l1}
  Requests = {r1, r2}
  Inbound = {"stop_word", "positive"}
  CalEvents = {uid1}
  NoBooking = NoBooking
  NoLead = NoLead
  NotLoaded = NotLoaded
  Brief <- MCBrief
  Preferred <- MCPreferred
  Email <- MCEmail
  Phone <- MCNoPhone
  Sink = "sink"
SPECIFICATION Spec
INVARIANT
  NoSendAfterStop
