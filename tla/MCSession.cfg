CONSTANTS
    Emails <- MCEmails
    Passwords <- MCPasswords
    Short <- MCShort
    NoUser = NoUser
    NoPassword = NoPassword
    NoAlert = NoAlert
    MaxRequests = 3
    MaxScreens = 4
SPECIFICATION Spec
INVARIANTS
    TabsAreCurrentUsers
    AccountsGetDocuments
