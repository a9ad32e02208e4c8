SPECIFICATION FairSpec
CONSTANTS
    Suppliers = {s1}
    Requests = {r1}
    Slots = {w1, w2}
    Kinds = {"request", "submission_submitted", "final_validation", "master_form_submitted", "ai_synthesis_prime", "onboarding_review", "source_change", "supplier_correction", "supplier_invited"}
    Prime = prime
    Backlog = 0
    LastDay = 1
    MaxEvents = 2
    MaxCrashes = 1
    MaxFailures = 1
INVARIANT MailOnce
PROPERTIES Resurfaced RequestHeardOf
CHECK_DEADLOCK FALSE
