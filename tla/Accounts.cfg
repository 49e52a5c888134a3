\* Two handlers, two accounts, and saves that fail.  The handlers stop when
\* they have been asked all; the process can always be restarted.
CONSTANTS
    Handlers = {h1, h2}
    People = {root, ann}
    Admin = root
    Policies = {ro, rw}
    Models = {m}
    MaxRequests = 4
    MaxFaults = 1
SPECIFICATION Spec
PROPERTY LastAdminStays
PROPERTY RestartKeepsWhatWasSaved
