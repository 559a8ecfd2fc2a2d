\* One cron worker and an administrator, two messages, one message per batch.
SPECIFICATION Spec
CONSTANTS
    mailer = mailer
    report = report
    m1 = m1
    m2 = m2
    worker = worker
    admin = admin
    None = None
    Mailer = mailer
    JobList <- MCJobList
    Removable <- MCRemovable
    Switched <- MCSwitched
    Delta <- MCDelta
    Messages <- MCMessages
    Workers <- MCWorkers
    Admins <- MCAdmins
    Limit = 1
    MaxLag = 1
    MaxFaults = 1
    MaxClicks = 1
INVARIANTS
    TypeOK
    SlotRunsOnce
    MailSentOnce
    SentMeansDelivered
PROPERTIES
    MailStateTerminal
    DueJobsRun
    MailLeavesQueue
