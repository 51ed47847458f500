\* Two emails that want one slug, two overlapping calls.
SPECIFICATION SignupSpec
CONSTANTS
    None = None
    Emails = {e1, e2}
    Passwords = {pw1, pw2}
    Calls = {x1, x2}
    MAX_OTP_ATTEMPTS = 1
    MAX_RESENDS = 1
    MaxCodes = 3
SYMMETRY MCSymmetry
CHECK_DEADLOCK FALSE
INVARIANTS SignupTypeOK LimitsOvershoot
PROPERTIES KeepsRegistry 
