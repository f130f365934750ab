\* An upload and a pull or two uploads, two complete calls, one answer, two builds
\* at a time; everything may fail, a job is delivered once.
SPECIFICATION Spec
CONSTANTS
    MaxImports = 2
    MaxTries = 1
    Completes = {c1, c2}
    c1 = c1
    c2 = c2
    Pulls = {p1}
    Answers = {a1}
    Areas = {career}
    career = career
    Builders = {b1, b2}
    b1 = b1
    b2 = b2
    p1 = p1
    a1 = a1
    Faults = {"crash", "timeout", "lost_enqueue", "raise", "raise_unhandled"}
  
PROPERTY LostOnlyByParsingAgain
\* The bounded instance ends when every call has been made.
CHECK_DEADLOCK FALSE
