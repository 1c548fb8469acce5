SPECIFICATION Spec
CONSTANTS
    Sessions <- MCSessions
    Users = {"u1"}
    UserOf <- MCUserOf
    Companies = {"c1"}
    CompanyOf <- MCCompanyOf
    NoCompany = NoCompany
    Evaluations <- MCEvaluations
    WeightOf <- MCWeightOf
    Contents <- MCContents
    SkillOf <- MCSkillOf
    Jobs = {j1, j2}
    MaxDay = 2
    MaxReplays = 1
INVARIANT FiguresOfOneRecording
CHECK_DEADLOCK FALSE
