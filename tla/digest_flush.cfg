SPECIFICATION FairSpec
CONSTANTS
  w1 = w1
  alert = alert
  text = text
  asked = asked
  mum = mum
  dad = dad
  phone = phone
  q1 = q1
  NoRequest = NoRequest
  Workers <- MCWorkers
  Items <- MCItems
  SmsItems <- MCSmsItems
  PreviewItems <- AskedOnly
  Recipients <- MCRecipients
  Recipient <- MCRecipient
  Requests <- MCRequests
  Batch <- MCBatch
  ScheduledItems <- MCItems
  AllowedRecipients <- MCRecipients
  DayMinutes = 2
  EmailMinutes <- OneMinute
  SmsMinutes <- OneHour
  MaxFaults = 1
INVARIANT QueuedAlertsAreTried
INVARIANT MailsBounded
INVARIANT CompletedRequestsFlushed
PROPERTY AlertsLeaveQueue
PROPERTY RequestsSettle
