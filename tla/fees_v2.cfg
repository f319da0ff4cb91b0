SPECIFICATION FeesSpec
CONSTANTS
    Referrers = {"r1", "r2"}
    ChargeVersions = {"v2"}
    TokenPrograms = {"spl_token", "spl_token_2022"}
    Percents = {0, 80}
    MaxFee = 2
    UserFunds = 4
    MaxIxs = 2
INVARIANT PayableChargeIsPaid
CHECK_DEADLOCK FALSE
