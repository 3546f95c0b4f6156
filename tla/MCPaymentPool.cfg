CONSTANTS
    Accounts = {a1, a2, a3}
    InitWallet = {a1}
    MaxBalance = 1
    MaxBegins = 3
SPECIFICATION Spec
INVARIANT TypeOK
 
