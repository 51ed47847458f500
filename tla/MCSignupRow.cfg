\* A startSignup that overlaps a verifySignup.
SPECIFICATION SignupSpec
CONSTANTS
    None = None
    Emails = {e1}
    Passwords = {pw1, pw2}
    Calls = {x1, x2}
    MAX_OTP_ATTEMPTS = 1
    MAX_RESENDS = 1
    MaxCodes = 3
CHECK_DEADLOCK FALSE
INVARIANT GoneWhenVerified
