\* One child enrolled twice under one consent.
SPECIFICATION IdentitySpec
CONSTANTS
    Owner = owner
    Adults = {}
    Children = {kid}
    Modalities = {face}
    CloudPurposes = {stt}
    Personalization = personalization
    ChildMemory = memory
    Ceremonies = {c1, c2}
    Routes = {r1}
    Nobody = nobody
    MaxReceipts = 2
    MaxVersion = 3
    Challenges = {}
    SessionLife = 1
    AnswerTime = 1
    MaxInstant = 0
INVARIANT
    EnrolledChildKeepsReminder
